---- MODULE Spec2Model ----
(***************************************************************************)
(* Relational-algebra evaluator of ra_edu_toolkit                          *)
(* (src/backend/core/evaluator.py), modelled as a state machine: the       *)
(* recursive function eval(node, env, steps) is unfolded into one step per *)
(* AST node, each step being the body of the matching isinstance branch.   *)
(*                                                                         *)
(* Representation.                                                         *)
(*   - A DataFrame is [schema, rows, aliases]: schema is the column list   *)
(*     without "_prov", rows is the row sequence in index order (every     *)
(*     frame the evaluator handles has a RangeIndex), each row is          *)
(*     [cells, prov] with cells aligned with schema, aliases is            *)
(*     df.attrs["aliases"] as a function alias -> column list.             *)
(*   - Cell values are integers: numbers are 0..99, the string with number *)
(*     k is Str(k) = 100 + k, NaN is the missing cell pandas produces,     *)
(*     None is what env.get returns for an unknown identifier.             *)
(*   - A provenance list is a sequence of <<relation, index>>; NaNProv is  *)
(*     the NaN pandas leaves in "_prov" when a merge has no partner row.   *)
(*   - Column dtypes are not modelled.                                     *)
(***************************************************************************)
EXTENDS Integers, Sequences, FiniteSets, TLC

\* ------------------------------------------------------------------ values
NaN == -1
None == -2
Str(k) == 100 + k
IsStr(v) == v >= 100
IsNum(v) == v >= 0 /\ v < 100
NaNProv == << <<"NaN", -1>> >>

\* ----------------------------------------------------------------- helpers
Range(s) == {s[i] : i \in 1..Len(s)}

\* position of the first column called c
Index(s, c) == CHOOSE i \in 1..Len(s) : s[i] = c /\ \A j \in 1..(i - 1) : s[j] # c

\* the elements of s at the positions in S, in order
SubSeqAt(s, S) ==
  LET F[i \in 0..Len(s)] ==
        IF i = 0 THEN <<>>
        ELSE IF i \in S THEN Append(F[i - 1], s[i]) ELSE F[i - 1]
  IN F[Len(s)]

\* concatenation of f[1], ..., f[n]
Flatten(f, n) ==
  LET F[i \in 0..n] == IF i = 0 THEN <<>> ELSE F[i - 1] \o f[i]
  IN F[n]

\* row[attrs] : the cells of a row under the named columns
Key(schema, row, attrs) == [k \in 1..Len(attrs) |-> row.cells[Index(schema, attrs[k])]]

\* list + list on an object column: NaN wherever either side is NaN
ProvAdd(p, q) == IF p = NaNProv \/ q = NaNProv THEN NaNProv ELSE p \o q

\* DataFrame.drop_duplicates(subset=attrs): keep the first row of each key
drop_duplicates(schema, rows, attrs) ==
  SubSeqAt(rows, {i \in 1..Len(rows) :
     \A j \in 1..(i - 1) : Key(schema, rows[j], attrs) # Key(schema, rows[i], attrs)})

\* df[attrs + ["_prov"]]
Select(df, attrs) ==
  [schema |-> attrs,
   rows |-> [i \in 1..Len(df.rows) |->
               [cells |-> Key(df.schema, df.rows[i], attrs), prov |-> df.rows[i].prov]],
   aliases |-> df.aliases]

_schema(df) == df.schema

PreviewLimit == 10

_preview(df) ==
  [i \in 1..(IF Len(df.rows) < PreviewLimit THEN Len(df.rows) ELSE PreviewLimit) |->
     df.rows[i].cells]

\* ----------------------------------------------------------------- aliases
EmptyAliases == [a \in {} |-> <<>>]

FilterCols(cols, colset) == SubSeqAt(cols, {i \in 1..Len(cols) : cols[i] \in colset})

\* mutant of _filter_aliases: the columns of an alias are kept as they are
_filter_aliases_Unfiltered(aliases, columns) ==
  [a \in {x \in DOMAIN aliases : aliases[x] # <<>>} |-> aliases[a]]

_filter_aliases(aliases, columns) ==
  [a \in {x \in DOMAIN aliases : aliases[x] # <<>>} |-> FilterCols(aliases[a], Range(columns))]

\* the per-alias loop of _map_and_store
MapCols(cols, out_set) ==
  LET F[i \in 0..Len(cols)] ==
        IF i = 0 THEN <<>>
        ELSE IF cols[i] \in out_set THEN Append(F[i - 1], cols[i])
        ELSE IF (cols[i] \o "_r") \in out_set THEN Append(F[i - 1], cols[i] \o "_r")
        ELSE F[i - 1]
  IN F[Len(cols)]

MapAndStore(source, out_set) ==
  [a \in {x \in DOMAIN source : MapCols(source[x], out_set) # <<>>} |->
     MapCols(source[a], out_set)]

_combine_aliases(output_cols, left_aliases, right_aliases) ==
  MapAndStore(right_aliases, Range(output_cols)) @@ MapAndStore(left_aliases, Range(output_cols))

\* -------------------------------------------------------------- conditions
(* A condition is the text of a sigma / theta-join predicate, kept as the   *)
(* expression tree Python's eval sees after the rewriting of _cond_eval:    *)
(*   [k |-> "cmp", op, l, r]   l op r, op in = != < <= > >= ("=" is "==")   *)
(*   [k |-> "and" | "or", l, r], [k |-> "not", e], [k |-> "const", v]       *)
(* with terms [k |-> "id", name] (rewritten to env.get(name)) and           *)
(* [k |-> "val", v] (a number or string literal); [k |-> "invalid"] is a    *)
(* text that Python cannot compile. A term [k |-> "add", l, r] is the       *)
(* arithmetic l + r of two such terms, which Python's eval computes.        *)
Id(n) == [k |-> "id", name |-> n]
Val(v) == [k |-> "val", v |-> v]
Cmp(l, o, r) == [k |-> "cmp", op |-> o, l |-> l, r |-> r]
And(l, r) == [k |-> "and", l |-> l, r |-> r]
Or(l, r) == [k |-> "or", l |-> l, r |-> r]
Not(e) == [k |-> "not", e |-> e]
Const(b) == [k |-> "const", v |-> b]
Unparsable == [k |-> "invalid"]
Add(l, r) == [k |-> "add", l |-> l, r |-> r]

\* the string values whose characters matter to the rewriting: their text
\* as a sequence of tokens, a word or one character; the other strings of
\* the model hold no "=" and no connective
AEqB == Str(41)
AEqEqB == Str(42)
UpperAND == Str(43)
LowerAnd == Str(44)
OtherText == Str(49)
Texts ==
  (AEqB :> <<"a", "=", "b">>) @@ (AEqEqB :> <<"a", "=", "=", "b">>)
  @@ (UpperAND :> <<"AND">>) @@ (LowerAnd :> <<"and">>)

\* re.sub(r"\bAND\b", "and", ..., flags=re.IGNORECASE), and OR, NOT alike
RewriteConnective(tok) ==
  CASE tok \in {"AND", "And", "and"} -> "and"
    [] tok \in {"OR", "Or", "or"} -> "or"
    [] tok \in {"NOT", "Not", "not"} -> "not"
    [] OTHER -> tok

\* re.sub(r"(?<![<>=!])=(?!=)", "==", py): a single "=" becomes "=="
RewriteEquals(toks) ==
  Flatten([i \in 1..Len(toks) |->
             IF /\ toks[i] = "="
                /\ (i = 1 \/ toks[i - 1] \notin {"<", ">", "=", "!"})
                /\ (i = Len(toks) \/ toks[i + 1] # "=")
             THEN <<"=", "=">> ELSE <<toks[i]>>], Len(toks))

\* lines 65-69 run over the whole condition text, quoted literals included
RewriteText(toks) ==
  RewriteEquals([i \in 1..Len(toks) |-> RewriteConnective(toks[i])])

\* the value Python sees for the literal v of the condition
RewrittenLiteral(v) ==
  IF v \notin DOMAIN Texts THEN v
  ELSE LET text == RewriteText(Texts[v])
       IN IF \E w \in DOMAIN Texts : Texts[w] = text
          THEN CHOOSE w \in DOMAIN Texts : Texts[w] = text
          ELSE OtherText

\* env.get(name)
EnvGet(env, name) == IF name \in DOMAIN env THEN env[name] ELSE None

AtomValue(t, env) == IF t.k = "id" THEN EnvGet(env, t.name) ELSE RewrittenLiteral(t.v)

\* Python's + raises TypeError on None and across number / string
TermRaises(t, env) ==
  /\ t.k = "add"
  /\ LET a == AtomValue(t.l, env)
         b == AtomValue(t.r, env)
     IN a = None \/ b = None \/ IsStr(a) # IsStr(b)

TermValue(t, env) ==
  IF t.k = "add"
  THEN LET a == AtomValue(t.l, env)
           b == AtomValue(t.r, env)
       IN IF a = NaN \/ b = NaN THEN NaN
          ELSE IF IsStr(a) THEN OtherText
          ELSE a + b
  ELSE AtomValue(t, env)

\* Python's == on cell values: None == None, NaN equals nothing
PyEq(a, b) == IF a = NaN \/ b = NaN THEN FALSE ELSE a = b

\* Python's ordering raises TypeError on None and across number / string
PyOrderRaises(a, b) ==
  \/ a = None \/ b = None
  \/ (IsStr(a) /\ ~IsStr(b)) \/ (IsStr(b) /\ ~IsStr(a))

PyCompare(o, a, b) ==
  CASE o = "="  -> [exc |-> FALSE, val |-> PyEq(a, b)]
    [] o = "!=" -> [exc |-> FALSE, val |-> ~PyEq(a, b)]
    [] OTHER ->
         IF PyOrderRaises(a, b) THEN [exc |-> TRUE, val |-> FALSE]
         ELSE IF a = NaN \/ b = NaN THEN [exc |-> FALSE, val |-> FALSE]
         ELSE [exc |-> FALSE,
               val |-> CASE o = "<"  -> a < b
                         [] o = "<=" -> a <= b
                         [] o = ">"  -> a > b
                         [] o = ">=" -> a >= b]

RECURSIVE PyEval(_, _)
PyEval(c, env) ==
  CASE c.k = "const" -> [exc |-> FALSE, val |-> c.v]
    [] c.k = "invalid" -> [exc |-> TRUE, val |-> FALSE]
    [] c.k = "cmp" ->
         IF TermRaises(c.l, env) \/ TermRaises(c.r, env) THEN [exc |-> TRUE, val |-> FALSE]
         ELSE PyCompare(c.op, TermValue(c.l, env), TermValue(c.r, env))
    [] c.k = "not" ->
         LET e == PyEval(c.e, env) IN [exc |-> e.exc, val |-> ~e.exc /\ ~e.val]
    [] c.k = "and" ->
         LET l == PyEval(c.l, env) IN
         IF l.exc \/ ~l.val THEN l ELSE PyEval(c.r, env)
    [] c.k = "or" ->
         LET l == PyEval(c.l, env) IN
         IF l.exc \/ l.val THEN l ELSE PyEval(c.r, env)

\* any exception of eval is caught and the condition counts as False
_cond_eval(cond, env) ==
  LET r == PyEval(cond, env) IN IF r.exc THEN FALSE ELSE r.val

\* {c: row[c] for c in vis}
ColumnEnv(schema, row) == [c \in Range(schema) |-> row.cells[Index(schema, c)]]

_row_env(schema, row, aliases) ==
  LET pairs == {p \in (DOMAIN aliases) \X Range(schema) : p[2] \in Range(aliases[p[1]])}
      keyOf(p) == p[1] \o "." \o p[2]
      qualified == [n \in {keyOf(p) : p \in pairs} |->
                      LET p == CHOOSE q \in pairs : keyOf(q) = n
                      IN row.cells[Index(schema, p[2])]]
  IN qualified @@ ColumnEnv(schema, row)

\* mutant of KeepRows: the scan stops at the first row that is kept
KeepRows_FirstOnly(rows, keeps) ==
  SubSeqAt(rows, {i \in keeps : \A j \in keeps : i <= j})

\* inp.loc[keeps].reset_index(drop=True)
KeepRows(rows, keeps) == SubSeqAt(rows, keeps)

\* ------------------------------------------------------------ binary merges
NaNs(n) == [k \in 1..n |-> NaN]

\* right column names after merge(..., suffixes=("", "_r"))
RightLabels(L, R) ==
  [k \in 1..Len(R.schema) |->
     IF R.schema[k] \in Range(L.schema) THEN R.schema[k] \o "_r" ELSE R.schema[k]]

\* the suffix makes two right columns collide: pandas raises MergeError
\* (2.x) or keeps both columns with a warning (1.x)
SuffixDuplicates(L, R) ==
  \E i, j \in 1..Len(R.schema) :
     i # j /\ RightLabels(L, R)[i] = RightLabels(L, R)[j] /\ R.schema[i] # R.schema[j]

\* L.merge(R, on="_k", how="outer"): every pairing, and the rows of one side
\* padded with NaN when the other side has no row
CrossRows(L, R) ==
  LET nl == Len(L.rows)
      nr == Len(R.rows)
  IN IF nl > 0 /\ nr > 0
     THEN [k \in 1..(nl * nr) |->
             LET l == L.rows[((k - 1) \div nr) + 1]
                 r == R.rows[((k - 1) % nr) + 1]
             IN [cells |-> l.cells \o r.cells, prov |-> ProvAdd(l.prov, r.prov)]]
     ELSE IF nl = 0
     THEN [k \in 1..nr |->
             [cells |-> NaNs(Len(L.schema)) \o R.rows[k].cells,
              prov |-> ProvAdd(NaNProv, R.rows[k].prov)]]
     ELSE [k \in 1..nl |->
             [cells |-> L.rows[k].cells \o NaNs(Len(R.schema)),
              prov |-> ProvAdd(L.rows[k].prov, NaNProv)]]

_product(L, R) ==
  LET cols == L.schema \o RightLabels(L, R)
  IN [schema |-> cols,
      rows |-> CrossRows(L, R),
      aliases |-> _combine_aliases(cols, L.aliases, R.aliases)]

\* mutant of Common: only the first common column is joined on
Common_FirstOnly(L, R) ==
  SubSeqAt(L.schema,
           {i \in 1..Len(L.schema) :
              /\ L.schema[i] \in Range(R.schema)
              /\ \A j \in 1..(i - 1) : L.schema[j] \notin Range(R.schema)})

\* common column names, in L's order
Common(L, R) == SubSeqAt(L.schema, {i \in 1..Len(L.schema) : L.schema[i] \in Range(R.schema)})

\* mutant of InnerRows: a left row is paired with its first match only
InnerRows_FirstMatch(L, R, common) ==
  LET rest == {k \in 1..Len(R.schema) : R.schema[k] \notin Range(common)}
      matches(l) ==
        LET hit == {j \in 1..Len(R.rows) :
                      Key(R.schema, R.rows[j], common) = Key(L.schema, l, common)}
            rs == SubSeqAt(R.rows, {j \in hit : \A k \in hit : j <= k})
        IN [j \in 1..Len(rs) |->
              [cells |-> l.cells \o SubSeqAt(rs[j].cells, rest),
               prov |-> ProvAdd(l.prov, rs[j].prov)]]
  IN Flatten([i \in 1..Len(L.rows) |-> matches(L.rows[i])], Len(L.rows))

\* L.merge(R, on=common, how="inner"): pairs agreeing on common, left order
InnerRows(L, R, common) ==
  LET rest == {k \in 1..Len(R.schema) : R.schema[k] \notin Range(common)}
      matches(l) ==
        LET hit == {j \in 1..Len(R.rows) :
                      Key(R.schema, R.rows[j], common) = Key(L.schema, l, common)}
            rs == SubSeqAt(R.rows, hit)
        IN [j \in 1..Len(rs) |->
              [cells |-> l.cells \o SubSeqAt(rs[j].cells, rest),
               prov |-> ProvAdd(l.prov, rs[j].prov)]]
  IN Flatten([i \in 1..Len(L.rows) |-> matches(L.rows[i])], Len(L.rows))

_natural_join(L, R) ==
  LET common == Common(L, R)
      cols == L.schema \o SubSeqAt(R.schema, {k \in 1..Len(R.schema) : R.schema[k] \notin Range(common)})
  IN IF common = <<>> THEN _product(L, R)
     ELSE [schema |-> cols,
           rows |-> InnerRows(L, R, common),
           aliases |-> _combine_aliases(cols, L.aliases, R.aliases)]

_theta_join(L, R, cond) ==
  LET P == _product(L, R)
      keeps == {i \in 1..Len(P.rows) : _cond_eval(cond, ColumnEnv(P.schema, P.rows[i]))}
  IN [schema |-> P.schema, rows |-> KeepRows(P.rows, keeps), aliases |-> P.aliases]

_intersection(L, R) ==
  LET schema == _schema(L)
      left == drop_duplicates(schema, Select(L, schema).rows, schema)
      right == drop_duplicates(schema, Select(R, schema).rows, schema)
      merged == InnerRows([schema |-> schema, rows |-> left],
                          [schema |-> schema, rows |-> right], schema)
  IN IF merged = <<>>
     THEN [schema |-> schema, rows |-> <<>>, aliases |-> EmptyAliases]
     ELSE [schema |-> schema,
           rows |-> drop_duplicates(schema, merged, schema),
           aliases |-> EmptyAliases]

\* dividend.groupby(quotient_attrs)["_prov"].agg(lambda series: sum(series, []))
\* looked up for one quotient row q; groups with a NaN key are dropped, and
\* the missing list is replaced by [] afterwards
GroupProv(dividend, quotient_attrs, q) ==
  LET grp == SubSeqAt(dividend.rows,
               {i \in 1..Len(dividend.rows) :
                  Key(dividend.schema, dividend.rows[i], quotient_attrs) = q})
  IN IF NaN \in Range(q) THEN <<>>
     ELSE Flatten([i \in 1..Len(grp) |-> grp[i].prov], Len(grp))

Candidates(dividend, quotient_attrs) ==
  drop_duplicates(quotient_attrs, Select(dividend, quotient_attrs).rows, quotient_attrs)

\* mutant of Required: only the first divisor row is required
Required_FirstOnly(divisor, divisor_attrs) ==
  SubSeqAt(drop_duplicates(divisor_attrs, Select(divisor, divisor_attrs).rows, divisor_attrs),
           {1})

Required(divisor, divisor_attrs) ==
  drop_duplicates(divisor_attrs, Select(divisor, divisor_attrs).rows, divisor_attrs)

\* mutant of Valid: a candidate is kept when one of its pairings is present
Valid_AnyPairing(dividend, divisor, quotient_attrs, divisor_attrs) ==
  LET candidates == Candidates(dividend, quotient_attrs)
      required == Required(divisor, divisor_attrs)
      actual == {Key(dividend.schema, dividend.rows[i], quotient_attrs \o divisor_attrs) :
                   i \in 1..Len(dividend.rows)}
      present(q) == \E j \in 1..Len(required) : (q \o required[j].cells) \in actual
  IN SubSeqAt(candidates, {i \in 1..Len(candidates) : present(candidates[i].cells)})

\* lines 233-246: the candidates none of whose pairings with a required row
\* is missing from the dividend
Valid(dividend, divisor, quotient_attrs, divisor_attrs) ==
  LET candidates == Candidates(dividend, quotient_attrs)
      required == Required(divisor, divisor_attrs)
      actual == {Key(dividend.schema, dividend.rows[i], quotient_attrs \o divisor_attrs) :
                   i \in 1..Len(dividend.rows)}
      missing(q) == \E j \in 1..Len(required) : (q \o required[j].cells) \notin actual
  IN SubSeqAt(candidates, {i \in 1..Len(candidates) : ~missing(candidates[i].cells)})

_division(dividend, divisor, quotient_attrs, divisor_attrs) ==
  LET candidates == Candidates(dividend, quotient_attrs)
      required == Required(divisor, divisor_attrs)
      valid == IF required = <<>> THEN candidates
               ELSE Valid(dividend, divisor, quotient_attrs, divisor_attrs)
  IN [schema |-> quotient_attrs,
      rows |-> [i \in 1..Len(valid) |->
                  [cells |-> valid[i].cells,
                   prov |-> GroupProv(dividend, quotient_attrs, valid[i].cells)]],
      aliases |-> EmptyAliases]

\* sum(series, []) raises TypeError when the groupby is reached and a "_prov"
\* cell of a kept group is NaN
DivisionProvRaises(dividend, divisor, quotient_attrs, divisor_attrs) ==
  /\ _division(dividend, divisor, quotient_attrs, divisor_attrs).rows # <<>>
  /\ \E i \in 1..Len(dividend.rows) :
        /\ dividend.rows[i].prov = NaNProv
        /\ NaN \notin Range(Key(dividend.schema, dividend.rows[i], quotient_attrs))

\* ----------------------------------------------------------------------- AST
(* ra_ast nodes as records of one shape: op names the class, kids holds the *)
(* sub / left, right nodes, cond and theta hold zero or one condition,      *)
(* relation = "" stands for None.                                           *)
Node(op, name, attrs, cond, pairs, relation, kids) ==
  [op |-> op, name |-> name, attrs |-> attrs, cond |-> cond, pairs |-> pairs,
   relation |-> relation, kids |-> kids]

Relation(name) == Node("Relation", name, <<>>, <<>>, <<>>, "", <<>>)
Projection(attrs, sub) == Node("Projection", "", attrs, <<>>, <<>>, "", <<sub>>)
Selection(cond, sub) == Node("Selection", "", <<>>, <<cond>>, <<>>, "", <<sub>>)
Rename(relation, pairs, sub) == Node("Rename", "", <<>>, <<>>, pairs, relation, <<sub>>)
Join(left, right, theta) == Node("Join", "", <<>>, theta, <<>>, "", <<left, right>>)
Product(left, right) == Node("Product", "", <<>>, <<>>, <<>>, "", <<left, right>>)
Union(left, right) == Node("Union", "", <<>>, <<>>, <<>>, "", <<left, right>>)
Difference(left, right) == Node("Difference", "", <<>>, <<>>, <<>>, "", <<left, right>>)
Intersection(left, right) == Node("Intersection", "", <<>>, <<>>, <<>>, "", <<left, right>>)
Division(left, right) == Node("Division", "", <<>>, <<>>, <<>>, "", <<left, right>>)

\* ------------------------------------------------------------ trace records
NoDetail ==
  [name |-> "", attrs |-> <<>>, cond |-> <<>>, renames |-> <<>>, relation |-> "",
   on_common_names |-> FALSE, quotient_attrs |-> <<>>, divisor_attrs |-> <<>>]

\* a record of the trace; a key the code does not write is the empty
\* set / sequence: input_schema is <<sub>> or <<left, right>>, delta is a set
\* of <<key, value>>, rows is {} or {len(df)}
StepRec(op, detail, input_schema, output_schema, delta, rows, preview) ==
  [op |-> op, detail |-> detail, input_schema |-> input_schema,
   output_schema |-> output_schema, delta |-> delta, rows |-> rows,
   preview |-> preview]

NoFrame == [schema |-> <<>>, rows |-> <<>>, aliases |-> EmptyAliases]
NoStep == StepRec("", NoDetail, <<>>, <<>>, {}, {}, <<>>)

Raised(why) == [raised |-> TRUE, error |-> why, out |-> NoFrame, step |-> NoStep]
Returned(out, step) == [raised |-> FALSE, error |-> "", out |-> out, step |-> step]

\* ---------------------------------------------------------- eval branches
\* mutant of RelationEnvAfter: df = env[key] without .copy(), so the alias
\* metadata is written into the caller's frame
RelationEnvAfter_InPlace(env, key) ==
  [env EXCEPT ![key].aliases = (key :> _schema(env[key]))]

\* the environment after lines 271-272: df is a copy, so writing
\* df.attrs["aliases"] leaves env[key] as it was
RelationEnvAfter(env, key) == env

RelationBranch(node, env) ==
  LET key == node.name
      df == [env[key] EXCEPT !.aliases = (key :> _schema(env[key]))]
  IN IF key \notin DOMAIN env THEN Raised("KeyError")
     ELSE Returned(df,
            StepRec("rel", [NoDetail EXCEPT !.name = node.name], <<>>, _schema(df),
                    {}, {Len(df.rows)}, _preview(df)))

ProjectionBranch(node, inp) ==
  LET sel == Select(inp, node.attrs)
      out == [schema |-> node.attrs,
              rows |-> drop_duplicates(node.attrs, sel.rows, node.attrs),
              aliases |-> _filter_aliases(inp.aliases, node.attrs)]
  IN IF ~(Range(node.attrs) \subseteq Range(inp.schema)) THEN Raised("KeyError")
     ELSE Returned(out,
            StepRec("pi", [NoDetail EXCEPT !.attrs = node.attrs], <<_schema(inp)>>,
                    _schema(out),
                    {<<"rows_before", Len(inp.rows)>>, <<"rows_after", Len(out.rows)>>},
                    {}, _preview(out)))

\* mutant of SelectionBranch: the kept rows are deduplicated
SelectionBranch_Deduplicates(node, inp) ==
  LET aliases == inp.aliases
      keeps == {i \in 1..Len(inp.rows) :
                  _cond_eval(node.cond[1], _row_env(inp.schema, inp.rows[i], aliases))}
      out == [schema |-> inp.schema,
              rows |-> drop_duplicates(inp.schema, KeepRows(inp.rows, keeps), inp.schema),
              aliases |-> _filter_aliases(aliases, inp.schema)]
  IN Returned(out,
       StepRec("sigma", [NoDetail EXCEPT !.cond = node.cond], <<_schema(inp)>>,
               _schema(out),
               {<<"rows_before", Len(inp.rows)>>, <<"rows_after", Len(out.rows)>>},
               {}, _preview(out)))

SelectionBranch(node, inp) ==
  LET aliases == inp.aliases
      keeps == {i \in 1..Len(inp.rows) :
                  _cond_eval(node.cond[1], _row_env(inp.schema, inp.rows[i], aliases))}
      out == [schema |-> inp.schema,
              rows |-> KeepRows(inp.rows, keeps),
              aliases |-> _filter_aliases(aliases, inp.schema)]
  IN Returned(out,
       StepRec("sigma", [NoDetail EXCEPT !.cond = node.cond], <<_schema(inp)>>,
               _schema(out),
               {<<"rows_before", Len(inp.rows)>>, <<"rows_after", Len(out.rows)>>},
               {}, _preview(out)))

RenameBranch(node, inp) ==
  LET cols == Range(inp.schema)
      pairs == node.pairs
      attr_pairs == SubSeqAt(pairs, {i \in 1..Len(pairs) : pairs[i][1] \in cols})
      absent == SubSeqAt(pairs, {i \in 1..Len(pairs) : pairs[i][1] \notin cols})
      relation_alias == IF node.relation # "" THEN node.relation
                        ELSE IF absent # <<>> THEN absent[1][2] ELSE ""
      \* m = {o: n for o, n in attr_pairs}: the last pair of an old name wins
      m(c) == IF \E i \in 1..Len(attr_pairs) : attr_pairs[i][1] = c
              THEN LET i == CHOOSE i \in 1..Len(attr_pairs) :
                               /\ attr_pairs[i][1] = c
                               /\ \A j \in (i + 1)..Len(attr_pairs) : attr_pairs[j][1] # c
                   IN attr_pairs[i][2]
              ELSE c
      schema == [k \in 1..Len(inp.schema) |-> m(inp.schema[k])]
      renamed == IF attr_pairs # <<>>
                 THEN [a \in DOMAIN inp.aliases |->
                         [k \in 1..Len(inp.aliases[a]) |-> m(inp.aliases[a][k])]]
                 ELSE inp.aliases
      aliases == IF relation_alias # "" THEN (relation_alias :> schema) ELSE renamed
      out == [schema |-> schema, rows |-> inp.rows,
              aliases |-> _filter_aliases(aliases, schema)]
  IN IF Len(absent) > 1 \/ (absent # <<>> /\ node.relation # "")
     THEN Raised("ValueError: cannot rename missing")
     ELSE IF \E i \in 1..Len(attr_pairs) :
                attr_pairs[i][2] \in cols /\ attr_pairs[i][2] # attr_pairs[i][1]
     THEN Raised("ValueError: rename target already exists")
     ELSE Returned(out,
            StepRec("rho",
                    [NoDetail EXCEPT !.renames = attr_pairs, !.relation = relation_alias],
                    <<_schema(inp)>>, _schema(out), {}, {}, _preview(out)))

\* what L.merge(R, suffixes=("", "_r")) does when the suffix makes two right
\* columns collide depends on the pandas version: both outcomes are kept
MergeOutcomes(L, R) == IF SuffixDuplicates(L, R) THEN {"MergeError", "columns"} ELSE {"columns"}

JoinBranch(node, L, R, merge) ==
  LET theta == node.cond # <<>>
      out == IF theta THEN _theta_join(L, R, node.cond[1]) ELSE _natural_join(L, R)
  IN IF merge = "MergeError" /\ (theta \/ Common(L, R) = <<>>) THEN Raised("MergeError")
     ELSE Returned(out,
            StepRec(IF theta THEN "theta_join" ELSE "join",
                    IF theta THEN [NoDetail EXCEPT !.cond = node.cond]
                    ELSE [NoDetail EXCEPT !.on_common_names = TRUE],
                    <<_schema(L), _schema(R)>>, _schema(out),
                    {<<"rows_after", Len(out.rows)>>}, {}, _preview(out)))

ProductBranch(node, L, R, merge) ==
  LET out == _product(L, R)
  IN IF merge = "MergeError" THEN Raised("MergeError")
     ELSE Returned(out,
            StepRec("product", NoDetail, <<_schema(L), _schema(R)>>, _schema(out),
                    {}, {}, _preview(out)))

UnionBranch(node, L, R) ==
  LET al == _schema(L)
      ar == _schema(R)
      tmp == [schema |-> al,
              rows |-> drop_duplicates(al, L.rows \o R.rows, al),
              aliases |-> _combine_aliases(al, L.aliases, R.aliases)]
  IN IF al # ar THEN Raised("ValueError: union-compatibility failed")
     ELSE Returned(tmp,
            StepRec("union", NoDetail, <<al, ar>>, al,
                    {<<"rows_after", Len(tmp.rows)>>}, {}, _preview(tmp)))

\* lines 437-443: the left_only rows of the left merge, re-indexed from 0,
\* then "_prov" overwritten with L.loc[out.index, "_prov"]
DifferenceRows(L, R) ==
  LET al == _schema(L)
      left_only == {i \in 1..Len(L.rows) :
                      \A j \in 1..Len(R.rows) :
                         Key(R.schema, R.rows[j], al) # L.rows[i].cells}
      kept == SubSeqAt(L.rows, left_only)
  IN [k \in 1..Len(kept) |-> [cells |-> kept[k].cells, prov |-> L.rows[k].prov]]

DifferenceBranch(node, L, R) ==
  LET al == _schema(L)
      ar == _schema(R)
      out == [schema |-> al,
              rows |-> DifferenceRows(L, R),
              aliases |-> _combine_aliases(al, L.aliases, R.aliases)]
  IN IF al # ar THEN Raised("ValueError: difference requires identical schemas")
     ELSE Returned(out,
            StepRec("difference", NoDetail, <<al, ar>>, al,
                    {<<"rows_after", Len(out.rows)>>}, {}, _preview(out)))

IntersectionBranch(node, L, R) ==
  LET al == _schema(L)
      ar == _schema(R)
      res == _intersection(L, R)
      out == [res EXCEPT !.aliases = _combine_aliases(res.schema, L.aliases, R.aliases)]
  IN IF al # ar THEN Raised("ValueError: intersection requires identical schemas")
     ELSE Returned(out,
            StepRec("intersection", NoDetail, <<al, ar>>, _schema(out),
                    {<<"rows_after", Len(out.rows)>>}, {}, _preview(out)))

\* mutant of DivisionBranch: the check of an empty quotient schema is left out
DivisionBranch_NoQuotientCheck(node, dividend, divisor) ==
  LET dividend_schema == _schema(dividend)
      divisor_schema == _schema(divisor)
      quotient_attrs == SubSeqAt(dividend_schema,
                          {i \in 1..Len(dividend_schema) :
                             dividend_schema[i] \notin Range(divisor_schema)})
      res == _division(dividend, divisor, quotient_attrs, divisor_schema)
      out == [res EXCEPT !.aliases = _filter_aliases(dividend.aliases, res.schema)]
  IN IF ~(Range(divisor_schema) \subseteq Range(dividend_schema))
     THEN Raised("ValueError: divisor attributes not a subset")
     ELSE IF DivisionProvRaises(dividend, divisor, quotient_attrs, divisor_schema)
     THEN Raised("TypeError")
     ELSE Returned(out,
            StepRec("division",
                    [NoDetail EXCEPT !.quotient_attrs = quotient_attrs,
                                     !.divisor_attrs = divisor_schema],
                    <<dividend_schema, divisor_schema>>, _schema(out),
                    {<<"rows_after", Len(out.rows)>>}, {}, _preview(out)))

DivisionBranch(node, dividend, divisor) ==
  LET dividend_schema == _schema(dividend)
      divisor_schema == _schema(divisor)
      quotient_attrs == SubSeqAt(dividend_schema,
                          {i \in 1..Len(dividend_schema) :
                             dividend_schema[i] \notin Range(divisor_schema)})
      res == _division(dividend, divisor, quotient_attrs, divisor_schema)
      out == [res EXCEPT !.aliases = _filter_aliases(dividend.aliases, res.schema)]
  IN IF ~(Range(divisor_schema) \subseteq Range(dividend_schema))
     THEN Raised("ValueError: divisor attributes not a subset")
     ELSE IF quotient_attrs = <<>> THEN Raised("ValueError: empty quotient")
     ELSE IF DivisionProvRaises(dividend, divisor, quotient_attrs, divisor_schema)
     THEN Raised("TypeError")
     ELSE Returned(out,
            StepRec("division",
                    [NoDetail EXCEPT !.quotient_attrs = quotient_attrs,
                                     !.divisor_attrs = divisor_schema],
                    <<dividend_schema, divisor_schema>>, _schema(out),
                    {<<"rows_after", Len(out.rows)>>}, {}, _preview(out)))

\* -------------------------------------------------------------- environments
\* datasets._load: "_prov" of row i of a base relation is [(relation_name, i)]
BaseRelation(name, schema, cells) ==
  [schema |-> schema,
   rows |-> [i \in 1..Len(cells) |-> [cells |-> cells[i], prov |-> << <<name, i - 1>> >>]],
   aliases |-> EmptyAliases]

\* the example environment of the specification's end-to-end scenarios
alice == Str(1)
bob == Str(2)
carol == Str(3)
dan == Str(4)
cs == Str(11)
ee == Str(12)
math == Str(13)
c101 == Str(21)
c102 == Str(22)
c103 == Str(23)
DB == Str(31)
OS == Str(32)
PL == Str(33)

ScenarioEnv ==
  ("students" :> BaseRelation("students", <<"sid", "name", "major">>,
       << <<1, alice, cs>>, <<2, bob, ee>>, <<3, carol, cs>>, <<4, dan, math>> >>))
  @@ ("enroll" :> BaseRelation("enroll", <<"sid", "cid">>,
       << <<1, c101>>, <<1, c102>>, <<2, c101>>, <<3, c101>>, <<3, c102>>, <<3, c103>> >>))
  @@ ("courses" :> BaseRelation("courses", <<"cid", "title">>,
       << <<c101, DB>>, <<c102, OS>>, <<c103, PL>> >>))
  @@ ("req" :> BaseRelation("req", <<"cid">>, << <<c101>>, <<c102>> >>))

\* the enumerated environments: relation r over [a, b] with up to MaxRows
\* rows, relation s over [a, b] (one row fewer) or over [b], cells in Vals,
\* rows in any order and with repetitions
MaxRows == 2
Vals == {1, 2}

SeqsUpTo(S, n) == UNION {[1..k -> S] : k \in 0..n}
Tuples(w) == [1..w -> Vals]

SmallEnvs ==
  {("r" :> BaseRelation("r", <<"a", "b">>, rc)) @@ ("s" :> sr) :
     rc \in SeqsUpTo(Tuples(2), MaxRows),
     sr \in {BaseRelation("s", <<"a", "b">>, sc) : sc \in SeqsUpTo(Tuples(2), MaxRows - 1)}
            \cup {BaseRelation("s", <<"b">>, sc) : sc \in SeqsUpTo(Tuples(1), MaxRows)}}

\* a relation whose names are the strings a=b, a==b, AND and and
LiteralsEnv ==
  "t" :> BaseRelation("t", <<"name">>,
           << <<AEqB>>, <<AEqEqB>>, <<UpperAND>>, <<LowerAnd>> >>)

Envs == {ScenarioEnv, LiteralsEnv} \cup SmallEnvs

\* ------------------------------------------------------------- expressions
\* the six end-to-end scenarios, and expressions around them
MajorIs(v) == Cmp(Id("major"), "=", Val(v))
CidIs(v) == Cmp(Id("cid"), "=", Val(v))
SidBelow(v) == Cmp(Id("sid"), "<", Val(v))
Empty(sub) == Selection(Const(FALSE), sub)
Theta5 == Cmp(Id("e.student_id"), "=", Id("students.sid"))
RenamedEnroll == Rename("e", << <<"sid", "student_id">> >>, Relation("enroll"))

Scenario1 == Projection(<<"name">>, Selection(MajorIs(cs), Relation("students")))
Scenario2 == Projection(<<"name">>,
                Join(Relation("students"), Selection(CidIs(c101), Relation("enroll")), <<>>))
Scenario3 == Division(Projection(<<"sid">>, Relation("enroll")), Relation("req"))
Scenario4 == Difference(Projection(<<"name">>, Relation("students")),
                Projection(<<"name">>, Selection(MajorIs(ee), Relation("students"))))
Scenario5 == Join(RenamedEnroll, Relation("students"), <<Theta5>>)
Scenario6 == Projection(<<"title">>,
                Join(Relation("courses"),
                     Intersection(Projection(<<"cid">>, Relation("enroll")), Relation("req")),
                     <<>>))

ScenarioASTs ==
  {Scenario1, Scenario2, Scenario3, Scenario4, Scenario5, Scenario6,
   Division(Relation("enroll"), Relation("req")),
   Selection(Theta5, Product(RenamedEnroll, Relation("students"))),
   Projection(<<"sid", "sid">>, Relation("enroll")),
   Projection(<<"title">>, Relation("enroll")),
   Product(Product(Relation("req"), Relation("req")), Relation("req")),
   Product(Relation("req"), Product(Relation("req"), Relation("req"))),
   Join(Relation("req"), Product(Relation("req"), Relation("req")), <<Const(TRUE)>>),
   Union(Relation("req"), Relation("courses")),
   Difference(Relation("req"), Relation("courses")),
   Intersection(Relation("req"), Relation("courses")),
   Division(Relation("req"), Relation("courses")),
   Division(Relation("req"), Relation("req")),
   Rename("", << <<"cid", "c">>, <<"x", "q">> >>, Relation("req")),
   Rename("q", << <<"x", "y">> >>, Relation("req")),
   Rename("", << <<"sid", "cid">> >>, Relation("enroll")),
   Relation("nosuch"),
   Union(Relation("nosuch"), Relation("req")),
   Selection(Cmp(Id("gpa"), "=", Val(4)), Relation("students")),
   Selection(Cmp(Id("gpa"), ">", Val(3)), Relation("students")),
   Selection(Cmp(Id("x.sid"), "=", Val(1)), Relation("enroll")),
   Selection(Unparsable, Relation("req")),
   Join(Relation("req"), Relation("courses"), <<Cmp(Id("credits"), "=", Val(3))>>),
   Selection(Not(SidBelow(alice)), Relation("students")),
   Selection(Or(SidBelow(alice), MajorIs(cs)), Relation("students")),
   Selection(Not(Cmp(Id("sid"), "=", Val(alice))), Relation("students")),
   Selection(Not(CidIs(c101)), Product(Empty(Relation("req")), Relation("students"))),
   Rename("", << <<"sid", "x">>, <<"cid", "x">> >>, Relation("enroll")),
   Rename("", << <<"sid", "k">>, <<"cid", "sid">> >>, Relation("enroll")),
   Selection(Cmp(Add(Id("sid"), Val(1)), "=", Val(2)), Relation("students")),
   Selection(Cmp(Add(Id("name"), Val(1)), "=", Val(2)), Relation("students")),
   Join(Relation("enroll"), Relation("req"), <<Cmp(Add(Id("sid"), Val(1)), ">", Val(2))>>),
   Join(Relation("req"), Projection(<<"name">>, Relation("students")), <<>>),
   Join(Empty(Relation("req")), Projection(<<"name">>, Relation("students")), <<>>)}

\* expressions over the enumerated relations r and s
RelR == Relation("r")
RelS == Relation("s")
AEq1 == Cmp(Id("a"), "=", Val(1))
ALtB == Cmp(Id("a"), "<", Id("b"))
ThetaPlain == Cmp(Id("a"), "<=", Id("b"))
ThetaQualified == Cmp(Id("r.a"), "=", Id("s.b"))
QualifiedAEq1 == Cmp(Id("r.a"), "=", Val(1))
BIs(v) == Cmp(Id("b"), "=", Val(v))
QualifiedBIs(v) == Cmp(Id("s.b"), "=", Val(v))

SmallASTs ==
  {Projection(<<"a">>, RelR), Projection(<<"b", "a">>, RelR),
   Selection(AEq1, RelR), Selection(Not(ALtB), RelR),
   Rename("x", << <<"a", "c">> >>, RelR),
   Join(RelR, RelS, <<>>), Join(RelR, RelS, <<ThetaPlain>>), Join(RelR, RelS, <<ThetaQualified>>),
   Selection(ThetaPlain, Product(RelR, RelS)), Selection(ThetaQualified, Product(RelR, RelS)),
   Union(RelR, RelS), Difference(RelR, RelS), Intersection(RelR, RelS), Division(RelR, RelS),
   Union(Projection(<<"b">>, RelR), Projection(<<"b">>, RelS)),
   Projection(<<"a">>, Union(RelR, RelS)),
   Difference(Selection(Or(AEq1, ALtB), RelR), Selection(AEq1, RelR)),
   Division(RelR, Projection(<<"b">>, RelS)),
   Product(Empty(RelR), RelS), Product(RelR, Empty(RelS)),
   Join(Empty(RelR), RelS, <<>>), Join(RelR, Empty(RelS), <<ThetaPlain>>),
   Division(Empty(RelR), RelS),
   Selection(AEq1, Union(RelR, RelS)), Selection(Not(ALtB), Union(RelR, RelS)),
   Selection(QualifiedAEq1, Union(RelR, RelS)),
   Selection(BIs(2), Product(RelR, RelS)), Selection(QualifiedBIs(2), Product(RelR, RelS)),
   Join(RelR, RelS, <<BIs(2)>>), Join(RelR, RelS, <<QualifiedBIs(2)>>),
   Selection(Const(TRUE), RelR)}

\* expressions over the relation t of LiteralsEnv
NameIs(v) == Cmp(Id("name"), "=", Val(v))

LiteralASTs ==
  {Selection(NameIs(v), Relation("t")) : v \in {AEqB, AEqEqB, UpperAND, LowerAnd}}
  \cup {Selection(Not(NameIs(AEqB)), Relation("t")),
        Selection(Or(NameIs(AEqB), NameIs(UpperAND)), Relation("t"))}

ASTsFor(e) ==
  IF "students" \in DOMAIN e THEN ScenarioASTs
  ELSE IF "t" \in DOMAIN e THEN LiteralASTs
  ELSE SmallASTs

RECURSIVE Size(_)
Size(node) ==
  1 + (IF Len(node.kids) >= 1 THEN Size(node.kids[1]) ELSE 0)
    + (IF Len(node.kids) = 2 THEN Size(node.kids[2]) ELSE 0)

\* ------------------------------------------------------------ state machine
VARIABLES
  env,      \* the caller's environment: relation name -> DataFrame
  root,     \* the node eval was called on (<<>> before the call)
  stack,    \* the active calls of eval, innermost first: [node, phase], phase
            \* being the number of sub-results already computed
  vals,     \* the results of the finished sub-calls, latest first
  steps,    \* the caller's trace list
  status,   \* "idle", "running", "returned" or "raised"
  result,   \* the frame eval returned
  last,     \* the node whose branch ran last, its inputs and its outcome
  steps0,   \* the trace list as the caller passed it in
  delivered \* what evaluate_expression hands to its caller

\* the legacy parser (src/raedu/ra_parser.py)
VARIABLES
  items,    \* the children lark hands to _ToAST.expr
  parsed    \* what expr returned or raised

\* the Database Manager page (src/frontend/pages/1_..._Database_Manager.py)
VARIABLES
  session_state, \* st.session_state, the two preview keys of it
  call           \* the page function called last, with the session before it

\* the datasets service (src/backend/services/datasets.py)
VARIABLES
  user_rows,             \* the user dataset rows, per user and database name
  storage,               \* the content stored under each object prefix
  _SCHEMA_PREVIEW_CACHE, \* the module's schema cache
  threads,               \* the request threads: the call each is in, its locals
  calls,                 \* the number of calls made
  promise,               \* per cache key, the schema first returned since the last clear
  deleted,               \* the <<user, name>> whose delete_database has completed
  returned               \* how the latest get_database_schema call ended

evalVars == <<env, root, stack, vals, steps, status, result, last, steps0, delivered>>
parserVars == <<items, parsed>>
previewVars == <<session_state, call>>
datasetVars == <<user_rows, storage, _SCHEMA_PREVIEW_CACHE, threads, calls, promise,
                 deleted, returned>>
vars == <<evalVars, parserVars, previewVars, datasetVars>>

\* the evaluator is not in use
EvalIdle ==
  /\ env = <<>>
  /\ steps = <<>>
  /\ steps0 = <<>>
  /\ root = <<>>
  /\ stack = <<>>
  /\ vals = <<>>
  /\ status = "unused"
  /\ result = <<>>
  /\ last = <<>>
  /\ delivered = <<>>

\* the parser is not in use
NotParsed == [done |-> FALSE, raised |-> FALSE, error |-> "", node |-> [cls |-> "Node"]]
ParserIdle == items = <<>> /\ parsed = NotParsed

\* a dict, as a function on its keys
EmptyMap == [n \in {} |-> 0]
Put(m, k, v) == [n \in (DOMAIN m) \cup {k} |-> IF n = k THEN v ELSE m[n]]
Pop(m, k) == [n \in (DOMAIN m) \ {k} |-> m[n]]

\* a session without the two preview keys
NoSession == [has_cache |-> FALSE, cache |-> EmptyMap,
              has_errors |-> FALSE, errors |-> EmptyMap]
NoCall == [op |-> "", name |-> "", before |-> NoSession]

\* the page is not in use
PreviewIdle == session_state = NoSession /\ call = NoCall

\* the datasets service is not in use
DatasetsIdle ==
  /\ user_rows = <<>>
  /\ storage = <<>>
  /\ _SCHEMA_PREVIEW_CACHE = <<>>
  /\ threads = <<>>
  /\ calls = 0
  /\ promise = <<>>
  /\ deleted = {}
  /\ returned = <<>>

\* the subsystems each part leaves alone
outsideEval == <<parserVars, previewVars, datasetVars>>
OutsideEvalIdle == ParserIdle /\ PreviewIdle /\ DatasetsIdle
outsideParser == <<evalVars, previewVars, datasetVars>>
OutsideParserIdle == EvalIdle /\ PreviewIdle /\ DatasetsIdle
outsidePreview == <<evalVars, parserVars, datasetVars>>
OutsidePreviewIdle == EvalIdle /\ ParserIdle /\ DatasetsIdle
outsideDatasets == <<evalVars, parserVars, previewVars>>
OutsideDatasetsIdle == EvalIdle /\ ParserIdle /\ PreviewIdle

NoLast == [node |-> Relation(""), args |-> <<>>, raised |-> FALSE, error |-> "", out |-> NoFrame]

PriorStep == StepRec("rel", [NoDetail EXCEPT !.name = "earlier"], <<>>, <<"x">>, {}, {0}, <<>>)

\* nothing delivered yet
NotDelivered ==
  [kind |-> "none", message |-> "", schema |-> <<>>, rows |-> <<>>,
   has_trace |-> FALSE, trace |-> <<>>]

\* EvaluationError(str(exc)): the exception carries the message only
EvaluationError(message) ==
  [kind |-> "EvaluationError", message |-> message, schema |-> <<>>, rows |-> <<>>,
   has_trace |-> FALSE, trace |-> <<>>]

\* preview.where(pd.notnull(preview), None).to_dict(orient="records")
_rows_from_dataframe(df) ==
  IF df.schema = <<>> THEN <<>>
  ELSE [i \in 1..Len(df.rows) |->
          [k \in 1..Len(df.schema) |->
             IF df.rows[i].cells[k] = NaN THEN None ELSE df.rows[i].cells[k]]]

EvaluationResult(df, trace) ==
  [kind |-> "EvaluationResult", message |-> "", schema |-> _schema(df),
   rows |-> _rows_from_dataframe(df), has_trace |-> TRUE, trace |-> trace]

Init ==
  /\ env \in Envs
  /\ steps \in (IF "students" \in DOMAIN env THEN {<<>>, <<PriorStep>>} ELSE {<<>>})
  /\ steps0 = steps
  /\ root = <<>>
  /\ stack = <<>>
  /\ vals = <<>>
  /\ status = "idle"
  /\ result = NoFrame
  /\ last = NoLast
  /\ delivered = NotDelivered
  /\ OutsideEvalIdle

\* eval(ast, env, steps) is called
Begin(ast) ==
  /\ status = "idle"
  /\ status' = "running"
  /\ root' = <<ast>>
  /\ stack' = <<[node |-> ast, phase |-> 0]>>
  /\ UNCHANGED <<env, vals, steps, result, last, steps0, delivered, outsideEval>>

\* mutant of Call: the right operand is evaluated before the left one
Call_RightFirst ==
  /\ status = "running"
  /\ stack # <<>>
  /\ stack[1].phase < Len(stack[1].node.kids)
  /\ stack' = <<[node |-> stack[1].node.kids[Len(stack[1].node.kids) - stack[1].phase],
                 phase |-> 0],
                [stack[1] EXCEPT !.phase = @ + 1]>> \o Tail(stack)
  /\ UNCHANGED <<env, root, vals, steps, status, result, last, steps0, delivered, outsideEval>>

\* the recursive call eval(node.sub / node.left / node.right, env, steps)
Call ==
  /\ status = "running"
  /\ stack # <<>>
  /\ stack[1].phase < Len(stack[1].node.kids)
  /\ stack' = <<[node |-> stack[1].node.kids[stack[1].phase + 1], phase |-> 0],
                [stack[1] EXCEPT !.phase = @ + 1]>> \o Tail(stack)
  /\ UNCHANGED <<env, root, vals, steps, status, result, last, steps0, delivered, outsideEval>>

Ready(op) ==
  /\ status = "running"
  /\ stack # <<>>
  /\ stack[1].node.op = op
  /\ stack[1].phase = Len(stack[1].node.kids)

\* the branch of the innermost call ends with outcome r: it raises, which
\* unwinds every active call, or appends its record and returns its frame
Complete(args, r) ==
  /\ last' = [node |-> stack[1].node, args |-> args, raised |-> r.raised,
              error |-> r.error, out |-> r.out]
  /\ IF r.raised
     THEN /\ status' = "raised"
          /\ stack' = <<>>
          /\ vals' = <<>>
          /\ UNCHANGED <<steps, result>>
     ELSE /\ steps' = Append(steps, r.step)
          /\ stack' = Tail(stack)
          /\ vals' = <<r.out>> \o SubSeq(vals, Len(args) + 1, Len(vals))
          /\ status' = IF Len(stack) = 1 THEN "returned" ELSE status
          /\ result' = IF Len(stack) = 1 THEN r.out ELSE result
  /\ UNCHANGED <<root, steps0, delivered, outsideEval>>

EvalRelation ==
  /\ Ready("Relation")
  /\ Complete(<<>>, RelationBranch(stack[1].node, env))
  /\ env' = IF stack[1].node.name \in DOMAIN env
            THEN RelationEnvAfter(env, stack[1].node.name) ELSE env

EvalProjection ==
  /\ Ready("Projection")
  /\ Complete(<<vals[1]>>, ProjectionBranch(stack[1].node, vals[1]))
  /\ UNCHANGED env

EvalSelection ==
  /\ Ready("Selection")
  /\ Complete(<<vals[1]>>, SelectionBranch(stack[1].node, vals[1]))
  /\ UNCHANGED env

EvalRename ==
  /\ Ready("Rename")
  /\ Complete(<<vals[1]>>, RenameBranch(stack[1].node, vals[1]))
  /\ UNCHANGED env

EvalJoin ==
  /\ Ready("Join")
  /\ \E merge \in MergeOutcomes(vals[2], vals[1]) :
        Complete(<<vals[2], vals[1]>>, JoinBranch(stack[1].node, vals[2], vals[1], merge))
  /\ UNCHANGED env

EvalProduct ==
  /\ Ready("Product")
  /\ \E merge \in MergeOutcomes(vals[2], vals[1]) :
        Complete(<<vals[2], vals[1]>>, ProductBranch(stack[1].node, vals[2], vals[1], merge))
  /\ UNCHANGED env

EvalUnion ==
  /\ Ready("Union")
  /\ Complete(<<vals[2], vals[1]>>, UnionBranch(stack[1].node, vals[2], vals[1]))
  /\ UNCHANGED env

EvalDifference ==
  /\ Ready("Difference")
  /\ Complete(<<vals[2], vals[1]>>, DifferenceBranch(stack[1].node, vals[2], vals[1]))
  /\ UNCHANGED env

EvalIntersection ==
  /\ Ready("Intersection")
  /\ Complete(<<vals[2], vals[1]>>, IntersectionBranch(stack[1].node, vals[2], vals[1]))
  /\ UNCHANGED env

EvalDivision ==
  /\ Ready("Division")
  /\ Complete(<<vals[2], vals[1]>>, DivisionBranch(stack[1].node, vals[2], vals[1]))
  /\ UNCHANGED env

\* relalg.evaluate_expression after its call of eval with steps = []: the
\* except clause raises EvaluationError, otherwise the result is built
evaluate_expression ==
  /\ status \in {"returned", "raised"}
  /\ steps0 = <<>>
  /\ delivered = NotDelivered
  /\ delivered' = IF status = "raised" THEN EvaluationError(last.error)
                  ELSE EvaluationResult(result, steps)
  /\ UNCHANGED <<env, root, stack, vals, steps, status, result, last, steps0, outsideEval>>

Next ==
  \/ \E ast \in ASTsFor(env) : Begin(ast)
  \/ Call
  \/ EvalRelation
  \/ EvalProjection
  \/ EvalSelection
  \/ EvalRename
  \/ EvalJoin
  \/ EvalProduct
  \/ EvalUnion
  \/ EvalDifference
  \/ EvalIntersection
  \/ EvalDivision
  \/ evaluate_expression

Spec == Init /\ [][Next]_vars

\* ------------------------------------------------------------ legacy parser
\* src/raedu/ra_ast.py: the node classes the legacy parser can build
AST_Classes == {"Node", "Relation", "Projection", "Selection", "Rename", "Join",
                "Product", "Union", "Difference"}

AST_Relation(name) == [cls |-> "Relation", name |-> name]
AST_Join(left, right, theta) == [cls |-> "Join", left |-> left, right |-> right, theta |-> theta]
AST_Binary(cls, left, right) == [cls |-> cls, left |-> left, right |-> right]

\* a text is its sequence of characters; Python's None for a theta
NoTheta == <<"None">>
Blank == " "

\* str.strip()
RECURSIVE LStrip(_)
LStrip(text) ==
  IF text # <<>> /\ Head(text) = Blank THEN LStrip(Tail(text)) ELSE text

RECURSIVE RStrip(_)
RStrip(text) ==
  IF text # <<>> /\ text[Len(text)] = Blank
  THEN RStrip(SubSeq(text, 1, Len(text) - 1)) ELSE text

Strip(text) == RStrip(LStrip(text))

\* the children of an expr rule: AST nodes, operator Tokens, condition strs
NoNode == [cls |-> "Node"]
NodeItem(n) == [t |-> "node", node |-> n, typ |-> "", text |-> <<>>]
\* a Token is a str; its text is the operator's spelling
TokItem(typ) == [t |-> "tok", node |-> NoNode, typ |-> typ, text |-> <<typ>>]
StrItem(text) == [t |-> "str", node |-> NoNode, typ |-> "", text |-> text]

ExprReturned(n) == [done |-> TRUE, raised |-> FALSE, error |-> "", node |-> n]
ExprRaised(e) == [done |-> TRUE, raised |-> TRUE, error |-> e, node |-> NoNode]

\* the class the reducer asks ra_ast for, per operator token
ClassOf(typ) ==
  CASE typ = "PRODUCT" -> "Product"
    [] typ = "UNION" -> "Union"
    [] typ = "DIFF" -> "Difference"
    [] typ = "INTERSECT" -> "Intersection"
    [] typ = "DIV" -> "Division"
    [] OTHER -> ""

\* the inner while loop after a JOIN token: skip to the next node, the last
\* str on the way becoming theta
RECURSIVE JoinScan(_, _, _)
JoinScan(its, idx, theta) ==
  IF idx <= Len(its) /\ its[idx].t # "node"
  THEN JoinScan(its, idx + 1,
                IF Strip(its[idx].text) = <<>> THEN NoTheta
                ELSE Strip(its[idx].text))
  ELSE [idx |-> idx, theta |-> theta]

\* the outer while loop of _ToAST.expr, from position idx with node built
RECURSIVE Reduce(_, _, _)
Reduce(its, node, idx) ==
  IF idx > Len(its) THEN ExprReturned(node)
  ELSE IF its[idx].t # "tok" THEN Reduce(its, node, idx + 1)
  ELSE LET typ == its[idx].typ IN
    IF typ = "JOIN"
    THEN LET scan == JoinScan(its, idx + 1, NoTheta) IN
         IF scan.idx > Len(its)
         THEN ExprRaised("ValueError")
         ELSE Reduce(its, AST_Join(node, its[scan.idx].node, scan.theta), scan.idx + 1)
    ELSE IF idx + 1 > Len(its) \/ its[idx + 1].t # "node"
    THEN ExprRaised("ValueError")
    ELSE IF ClassOf(typ) = "" THEN ExprRaised("ValueError")
    ELSE IF ClassOf(typ) \notin AST_Classes THEN ExprRaised("AttributeError")
    ELSE Reduce(its, AST_Binary(ClassOf(typ), node, its[idx + 1].node), idx + 2)

expr(its) ==
  IF its = <<>> THEN ExprRaised("ValueError") ELSE Reduce(its, its[1].node, 2)

\* inputs: chains u0 op1 u1 op2 u2 ... with at most MaxOps operators
MaxOps == 2

Conds == { <<"a", "=", "b">>, <<" ", "a", "=", "b", " ">>, <<" ">> }
NoCond == <<>>
Links ==
  {[tok |-> "JOIN", cond |-> c] : c \in Conds \cup {NoCond}}
    \cup {[tok |-> t, cond |-> NoCond] :
            t \in {"PRODUCT", "UNION", "DIFF", "INTERSECT", "DIV"}}
Chains == UNION {[1..n -> Links] : n \in 0..MaxOps}

Unit(i) == AST_Relation(<<"a", "b", "c", "d", "e">>[i])

RECURSIVE LinkItems(_, _)
LinkItems(chain, i) ==
  IF i > Len(chain) THEN <<>>
  ELSE <<TokItem(chain[i].tok)>>
         \o (IF chain[i].cond = NoCond THEN <<>> ELSE <<StrItem(chain[i].cond)>>)
         \o <<NodeItem(Unit(i + 1))>>
         \o LinkItems(chain, i + 1)

ItemsOf(chain) == <<NodeItem(Unit(1))>> \o LinkItems(chain, 1)

InitParser ==
  /\ OutsideParserIdle
  /\ \E chain \in Chains : items = ItemsOf(chain)
  /\ parsed = NotParsed

\* lark calls the expr callback with the children of the rule
Parse ==
  /\ ~parsed.done
  /\ parsed' = expr(items)
  /\ UNCHANGED <<items, outsideParser>>

NextParser == Parse

SpecParser == InitParser /\ [][NextParser]_vars

\* ------------------------------------------------- database manager page
DatabaseNames == {"A", "B"}
NoDatabase == "None"          \* the default argument, database_name=None
Previews == {"tables1", "tables2"}
Messages == {"err"}

\* st.session_state.setdefault(KEY, {}) for both preview keys
SetDefaults(s) ==
  [has_cache |-> TRUE, cache |-> IF s.has_cache THEN s.cache ELSE EmptyMap,
   has_errors |-> TRUE, errors |-> IF s.has_errors THEN s.errors ELSE EmptyMap]

\* ok: the API call returned a schema (shown as tables); otherwise it raised
\* an exception with text shown
_fetch_database_preview(s, database_name, ok, shown) ==
  LET d == SetDefaults(s) IN
  IF ok
  THEN [d EXCEPT !.cache = Put(d.cache, database_name, shown),
                 !.errors = Pop(d.errors, database_name)]
  ELSE [d EXCEPT !.errors = Put(d.errors, database_name, shown),
                 !.cache = Pop(d.cache, database_name)]

_clear_preview_cache_KeepsErrors(s, database_name) ==
  IF database_name = NoDatabase
  THEN [has_cache |-> FALSE, cache |-> EmptyMap,
        has_errors |-> s.has_errors, errors |-> s.errors]
  ELSE [s EXCEPT !.cache = Pop(s.cache, database_name)]

_clear_preview_cache(s, database_name) ==
  IF database_name = NoDatabase
  THEN NoSession
  ELSE [s EXCEPT !.cache = Pop(s.cache, database_name),
                 !.errors = Pop(s.errors, database_name)]

InitPreview ==
  /\ OutsidePreviewIdle
  /\ session_state = NoSession
  /\ call = NoCall

\* main() on a rerun of the page
Main ==
  /\ session_state' = SetDefaults(session_state)
  /\ call' = [op |-> "main", name |-> "", before |-> session_state]
  /\ UNCHANGED outsidePreview

\* the Load / Refresh table previews button
FetchPreview ==
  \E database_name \in DatabaseNames, ok \in BOOLEAN :
    \E shown \in (IF ok THEN Previews ELSE Messages) :
      /\ session_state' = _fetch_database_preview(session_state, database_name, ok, shown)
      /\ call' = [op |-> "_fetch_database_preview", name |-> database_name,
                  before |-> session_state]
      /\ UNCHANGED outsidePreview

\* after a delete or hide (one name), after an import (no argument)
ClearPreview ==
  \E database_name \in DatabaseNames \cup {NoDatabase} :
    /\ session_state' = _clear_preview_cache(session_state, database_name)
    /\ call' = [op |-> "_clear_preview_cache", name |-> database_name,
                before |-> session_state]
    /\ UNCHANGED outsidePreview

NextPreview == Main \/ FetchPreview \/ ClearPreview

SpecPreview == InitPreview /\ [][NextPreview]_vars

\* --------------------------------------------------------- datasets service
\* src/backend/services/datasets.py, called from request threads
MaxCalls == 5
Threads == 1..2

Users == {"u", "v"}
DefaultNames == {"D"}
Databases == {"D", "X"}
SampleRows == {-1, 0}
Contents == {1, 2}

NoSchema == [name |-> "", content |-> 0, nrows |-> 0]
NoPrefix == <<"", "">>
DefaultPrefix(name) == <<"defaults", name>>
_user_dataset_prefix(user_id, name) == <<user_id, name>>
Prefixes == {DefaultPrefix(n) : n \in DefaultNames} \cup (Users \X Databases)

\* max(sample_rows, 0)
Max0(n) == IF n > 0 THEN n ELSE 0

_schema_cache_key(database, sample_rows, user_id) ==
  <<user_id, database, Max0(sample_rows)>>

CacheKeys == {_schema_cache_key(d, n, u) :
                d \in Databases, n \in SampleRows, u \in Users}

\* clear_schema_preview_cache(database): every key of that name, of any user
clear_schema_preview_cache(c, database) ==
  [k \in CacheKeys |-> IF k[2] = database THEN NoSchema ELSE c[k]]

\* user rows: "none", "user" (source_type user, not hidden) or
\* "default_hidden" (source_type default, hidden)
_resolve_location(urows, database, user_id) ==
  LET user_row == urows[user_id][database] IN
  IF user_row = "user"
  THEN [raised |-> FALSE, prefix |-> _user_dataset_prefix(user_id, database)]
  ELSE IF database \in DefaultNames
  THEN IF user_row = "default_hidden"
       THEN [raised |-> TRUE, prefix |-> NoPrefix]
       ELSE [raised |-> FALSE, prefix |-> DefaultPrefix(database)]
  ELSE [raised |-> TRUE, prefix |-> NoPrefix]

\* the table names under a prefix
_list_table_names(sto, prefix) == IF sto[prefix] = 0 THEN <<>> ELSE <<"t">>

\* the summaries in the order of their names
NameOrder == <<"D", "X">>
RECURSIVE Summaries(_, _, _, _)
Summaries(urows, sto, user_id, i) ==
  IF i > Len(NameOrder) THEN <<>>
  ELSE LET name == NameOrder[i]
           row == urows[user_id][name]
           rest == Summaries(urows, sto, user_id, i + 1)
       IN IF row = "user"
          THEN <<[name |-> name, is_default |-> FALSE,
                  tables |-> _list_table_names(sto, _user_dataset_prefix(user_id, name))]>>
                 \o rest
          ELSE IF name \in DefaultNames /\ row # "default_hidden"
          THEN <<[name |-> name, is_default |-> TRUE,
                  tables |-> _list_table_names(sto, DefaultPrefix(name))]>> \o rest
          ELSE rest

list_databases(urows, sto, user_id) == Summaries(urows, sto, user_id, 1)

DatabaseSchema(database, content, sample_rows) ==
  [name |-> database, content |-> content, nrows |-> Max0(sample_rows)]

Idle == [op |-> "idle", pc |-> "", user |-> "", name |-> "", sample_rows |-> 0,
         prefix |-> NoPrefix, content |-> 0, owed |-> NoSchema, mustFail |-> FALSE]

NoReturn == [outcome |-> "", user |-> "", name |-> "", schema |-> NoSchema,
             owed |-> NoSchema, mustFail |-> FALSE, touched |-> FALSE]

\* a get_database_schema call of thread t ends
GetReturns(t, outcome, schema, touched) ==
  LET th == threads[t]
      key == _schema_cache_key(th.name, th.sample_rows, th.user) IN
  /\ returned' = [outcome |-> outcome, user |-> th.user, name |-> th.name,
                  schema |-> schema, owed |-> th.owed, mustFail |-> th.mustFail,
                  touched |-> touched]
  /\ promise' = IF outcome = "schema" /\ promise[key] = NoSchema
                THEN [promise EXCEPT ![key] = schema] ELSE promise
  /\ threads' = [threads EXCEPT ![t] = Idle]

InitDatasets ==
  /\ OutsideDatasetsIdle
  /\ user_rows = [u \in Users |-> [n \in Databases |->
                    IF u = "u" /\ n = "X" THEN "user" ELSE "none"]]
  /\ storage = [p \in Prefixes |->
                  IF p \in {DefaultPrefix(n) : n \in DefaultNames} THEN 3
                  ELSE IF p = <<"u", "X">> THEN 1 ELSE 0]
  /\ _SCHEMA_PREVIEW_CACHE = [k \in CacheKeys |-> NoSchema]
  /\ threads = [t \in Threads |-> Idle]
  /\ calls = 0
  /\ promise = [k \in CacheKeys |-> NoSchema]
  /\ deleted = {}
  /\ returned = NoReturn

\* get_database_schema up to the cache lookup
GetCall(t) ==
  /\ threads[t].op = "idle"
  /\ calls < MaxCalls
  /\ calls' = calls + 1
  /\ \E user_id \in Users, database \in Databases, sample_rows \in SampleRows :
       LET key == _schema_cache_key(database, sample_rows, user_id)
           cached == _SCHEMA_PREVIEW_CACHE[key]
           th == [Idle EXCEPT !.op = "get", !.pc = "resolve", !.user = user_id,
                              !.name = database, !.sample_rows = sample_rows,
                              !.owed = promise[key],
                              !.mustFail = (<<user_id, database>> \in deleted)]
       IN IF cached # NoSchema
          THEN /\ returned' = [outcome |-> "schema", user |-> user_id, name |-> database,
                               schema |-> cached, owed |-> th.owed,
                               mustFail |-> th.mustFail, touched |-> FALSE]
               /\ promise' = IF promise[key] = NoSchema
                             THEN [promise EXCEPT ![key] = cached] ELSE promise
               /\ UNCHANGED threads
          ELSE /\ threads' = [threads EXCEPT ![t] = th]
               /\ UNCHANGED <<returned, promise>>
  /\ UNCHANGED <<user_rows, storage, _SCHEMA_PREVIEW_CACHE, deleted, outsideDatasets>>

\* location = _resolve_location(database, user_id)
GetResolve(t) ==
  /\ threads[t].op = "get" /\ threads[t].pc = "resolve"
  /\ LET location == _resolve_location(user_rows, threads[t].name, threads[t].user) IN
     IF location.raised
     THEN GetReturns(t, "FileNotFoundError", NoSchema, FALSE)
     ELSE /\ threads' = [threads EXCEPT ![t].pc = "list", ![t].prefix = location.prefix]
          /\ UNCHANGED <<returned, promise>>
  /\ UNCHANGED <<user_rows, storage, _SCHEMA_PREVIEW_CACHE, calls, deleted, outsideDatasets>>

\* names = storage_list_objects(...); no CSV file is a ValueError
GetList(t) ==
  /\ threads[t].op = "get" /\ threads[t].pc = "list"
  /\ IF _list_table_names(storage, threads[t].prefix) = <<>>
     THEN GetReturns(t, "ValueError", NoSchema, TRUE)
     ELSE /\ threads' = [threads EXCEPT ![t].pc = "download"]
          /\ UNCHANGED <<returned, promise>>
  /\ UNCHANGED <<user_rows, storage, _SCHEMA_PREVIEW_CACHE, calls, deleted, outsideDatasets>>

\* raw = storage_download_object(...) for the files listed
GetDownload(t) ==
  /\ threads[t].op = "get" /\ threads[t].pc = "download"
  /\ IF storage[threads[t].prefix] = 0
     THEN GetReturns(t, "SupabaseStorageError", NoSchema, TRUE)
     ELSE /\ threads' = [threads EXCEPT ![t].pc = "store",
                                        ![t].content = storage[threads[t].prefix]]
          /\ UNCHANGED <<returned, promise>>
  /\ UNCHANGED <<user_rows, storage, _SCHEMA_PREVIEW_CACHE, calls, deleted, outsideDatasets>>

\* _SCHEMA_PREVIEW_CACHE[key] = schema; return schema
GetStore(t) ==
  /\ threads[t].op = "get" /\ threads[t].pc = "store"
  /\ LET th == threads[t]
         schema == DatabaseSchema(th.name, th.content, th.sample_rows) IN
     /\ _SCHEMA_PREVIEW_CACHE' =
          [_SCHEMA_PREVIEW_CACHE EXCEPT
             ![_schema_cache_key(th.name, th.sample_rows, th.user)] = schema]
     /\ GetReturns(t, "schema", schema, TRUE)
  /\ UNCHANGED <<user_rows, storage, calls, deleted, outsideDatasets>>

\* the end of a create or a delete: clear_schema_preview_cache(name); return
ClearAndReturn(t) ==
  LET name == threads[t].name IN
  /\ _SCHEMA_PREVIEW_CACHE' = clear_schema_preview_cache(_SCHEMA_PREVIEW_CACHE, name)
  /\ promise' = [k \in CacheKeys |-> IF k[2] = name THEN NoSchema ELSE promise[k]]
  /\ threads' = [s \in Threads |->
                   IF s = t THEN Idle
                   ELSE IF threads[s].name = name
                   THEN [threads[s] EXCEPT !.owed = NoSchema]
                   ELSE threads[s]]

\* delete_database up to the reads of the default rows and the user's rows
DeleteCall(t) ==
  /\ threads[t].op = "idle"
  /\ calls < MaxCalls
  /\ calls' = calls + 1
  /\ \E user_id \in Users, database \in Databases :
       LET th == [Idle EXCEPT !.op = "delete", !.user = user_id, !.name = database] IN
       IF database \in DefaultNames
       THEN threads' = [threads EXCEPT ![t] = [th EXCEPT !.pc = "hide"]]
       ELSE IF user_rows[user_id][database] = "user"
       THEN threads' = [threads EXCEPT ![t] =
                          [th EXCEPT !.pc = "storage",
                                     !.prefix = _user_dataset_prefix(user_id, database)]]
       ELSE UNCHANGED threads
  /\ UNCHANGED <<user_rows, storage, _SCHEMA_PREVIEW_CACHE, promise, deleted,
                 returned, outsideDatasets>>

DeleteHide_EveryUser(t) ==
  /\ threads[t].op = "delete" /\ threads[t].pc = "hide"
  /\ user_rows' = [u \in Users |->
                     [user_rows[u] EXCEPT ![threads[t].name] = "default_hidden"]]
  /\ threads' = [threads EXCEPT ![t].pc = "clear"]
  /\ UNCHANGED <<storage, _SCHEMA_PREVIEW_CACHE, calls, promise, deleted, returned,
                 outsideDatasets>>

\* upsert_user_dataset(source_type="default", hidden=True)
DeleteHide(t) ==
  /\ threads[t].op = "delete" /\ threads[t].pc = "hide"
  /\ user_rows' = [user_rows EXCEPT ![threads[t].user][threads[t].name] = "default_hidden"]
  /\ threads' = [threads EXCEPT ![t].pc = "clear"]
  /\ UNCHANGED <<storage, _SCHEMA_PREVIEW_CACHE, calls, promise, deleted, returned,
                 outsideDatasets>>

\* storage_delete_prefix(row.bucket_name, row.object_prefix)
DeleteStorage(t) ==
  /\ threads[t].op = "delete" /\ threads[t].pc = "storage"
  /\ storage' = [storage EXCEPT ![threads[t].prefix] = 0]
  /\ threads' = [threads EXCEPT ![t].pc = "row"]
  /\ UNCHANGED <<user_rows, _SCHEMA_PREVIEW_CACHE, calls, promise, deleted, returned,
                 outsideDatasets>>

\* delete_user_dataset_row(user_id, name)
DeleteRow(t) ==
  /\ threads[t].op = "delete" /\ threads[t].pc = "row"
  /\ user_rows' = [user_rows EXCEPT ![threads[t].user][threads[t].name] = "none"]
  /\ threads' = [threads EXCEPT ![t].pc = "clear"]
  /\ UNCHANGED <<storage, _SCHEMA_PREVIEW_CACHE, calls, promise, deleted, returned,
                 outsideDatasets>>

DeleteClear(t) ==
  /\ threads[t].op = "delete" /\ threads[t].pc = "clear"
  /\ ClearAndReturn(t)
  /\ deleted' = deleted \cup {<<threads[t].user, threads[t].name>>}
  /\ UNCHANGED <<user_rows, storage, calls, returned, outsideDatasets>>

\* create_database_from_zip / _from_sql up to the reads of the rows
CreateCall(t) ==
  /\ threads[t].op = "idle"
  /\ calls < MaxCalls
  /\ calls' = calls + 1
  /\ \E user_id \in Users, database \in Databases, content \in Contents :
       IF database \in DefaultNames \/ user_rows[user_id][database] = "user"
       THEN UNCHANGED <<threads, deleted>>
       ELSE /\ threads' = [s \in Threads |->
                 IF s = t
                 THEN [Idle EXCEPT !.op = "create", !.pc = "upload", !.user = user_id,
                                   !.name = database, !.content = content,
                                   !.prefix = _user_dataset_prefix(user_id, database)]
                 ELSE IF threads[s].user = user_id /\ threads[s].name = database
                 THEN [threads[s] EXCEPT !.mustFail = FALSE]
                 ELSE threads[s]]
            /\ deleted' = deleted \ {<<user_id, database>>}
  /\ UNCHANGED <<user_rows, storage, _SCHEMA_PREVIEW_CACHE, promise, returned,
                 outsideDatasets>>

\* _upload_csv_map(bucket, prefix, csv_map)
CreateUpload(t) ==
  /\ threads[t].op = "create" /\ threads[t].pc = "upload"
  /\ storage' = [storage EXCEPT ![threads[t].prefix] = threads[t].content]
  /\ threads' = [threads EXCEPT ![t].pc = "upsert"]
  /\ UNCHANGED <<user_rows, _SCHEMA_PREVIEW_CACHE, calls, promise, deleted, returned,
                 outsideDatasets>>

\* upsert_user_dataset(source_type="user", hidden=False)
CreateUpsert(t) ==
  /\ threads[t].op = "create" /\ threads[t].pc = "upsert"
  /\ user_rows' = [user_rows EXCEPT ![threads[t].user][threads[t].name] = "user"]
  /\ threads' = [threads EXCEPT ![t].pc = "clear"]
  /\ UNCHANGED <<storage, _SCHEMA_PREVIEW_CACHE, calls, promise, deleted, returned,
                 outsideDatasets>>

CreateClear(t) ==
  /\ threads[t].op = "create" /\ threads[t].pc = "clear"
  /\ ClearAndReturn(t)
  /\ UNCHANGED <<user_rows, storage, calls, deleted, returned, outsideDatasets>>

get_database_schema(t) ==
  GetCall(t) \/ GetResolve(t) \/ GetList(t) \/ GetDownload(t) \/ GetStore(t)

delete_database(t) ==
  DeleteCall(t) \/ DeleteHide(t) \/ DeleteStorage(t) \/ DeleteRow(t) \/ DeleteClear(t)

create_database(t) ==
  CreateCall(t) \/ CreateUpload(t) \/ CreateUpsert(t) \/ CreateClear(t)

NextDatasets ==
  \E t \in Threads : get_database_schema(t) \/ delete_database(t) \/ create_database(t)

SpecDatasets == InitDatasets /\ [][NextDatasets]_vars

\* ------------------------------------------------------------------- claims
Done == status \in {"returned", "raised"}

\* the "op" a node writes into its record (pi, sigma, rho, join, theta_join,
\* product, union, difference, intersection, division stand for the glyphs)
TraceOp(node) ==
  CASE node.op = "Relation" -> "rel"
    [] node.op = "Projection" -> "pi"
    [] node.op = "Selection" -> "sigma"
    [] node.op = "Rename" -> "rho"
    [] node.op = "Join" -> IF node.cond # <<>> THEN "theta_join" ELSE "join"
    [] node.op = "Product" -> "product"
    [] node.op = "Union" -> "union"
    [] node.op = "Difference" -> "difference"
    [] node.op = "Intersection" -> "intersection"
    [] node.op = "Division" -> "division"

Signature(op, name, attrs, cond) == [op |-> op, name |-> name, attrs |-> attrs, cond |-> cond]

\* the nodes of an AST in post-order: left (or only) subtree, right subtree, node
RECURSIVE PostOrder(_)
PostOrder(node) ==
  (IF Len(node.kids) >= 1 THEN PostOrder(node.kids[1]) ELSE <<>>)
  \o (IF Len(node.kids) = 2 THEN PostOrder(node.kids[2]) ELSE <<>>)
  \o <<Signature(TraceOp(node), node.name, node.attrs, node.cond)>>

Recorded(from, to) ==
  [i \in 1..(to - from) |->
     Signature(steps[from + i].op, steps[from + i].detail.name,
               steps[from + i].detail.attrs, steps[from + i].detail.cond)]

IsPrefix(s, t) == Len(s) <= Len(t) /\ SubSeq(t, 1, Len(s)) = s

\* C1: a successful eval appends exactly one record per AST node, in
\* post-order (left subtree, right subtree, node), and never changes or
\* removes a record that is already in steps.
C1_OneRecordPerNodePostOrder ==
  /\ [](status = "returned" =>
          /\ Len(steps) = Len(steps0) + Size(root[1])
          /\ IsPrefix(steps0, steps)
          /\ Recorded(Len(steps0), Len(steps)) = PostOrder(root[1]))
  /\ [][IsPrefix(steps, steps')]_vars

C1_Witness ==
  /\ status = "returned"
  /\ root = <<Scenario6>>
  /\ steps0 # <<>>
  /\ Len(steps) = Len(steps0) + 7

\* C2: a call of eval, whether it returns or raises, leaves the environment
\* as it was: the same relation names, and for every relation the same
\* schema, rows, provenance lists and alias metadata.
C2_EnvironmentNotMutated == [][env' = env]_vars

C2_Witness ==
  /\ status = "raised"
  /\ Len(steps) > Len(steps0)
  /\ \A n \in DOMAIN env : env[n].aliases = EmptyAliases

RowSet(df) == {df.rows[i].cells : i \in 1..Len(df.rows)}

NoDuplicateRows(df) ==
  \A i, j \in 1..Len(df.rows) : i # j => df.rows[i].cells # df.rows[j].cells

Distinct(seq) == \A i, j \in 1..Len(seq) : i # j => seq[i] # seq[j]

SetOperators == {"Projection", "Union", "Intersection", "Difference", "Division"}

\* C3: the relation produced by a projection, union, intersection,
\* difference or division node has no two rows equal on all schema
\* attributes, also when its inputs contain duplicate rows.
C3_SetOperatorsEmitNoDuplicates ==
  (last.node.op \in SetOperators /\ ~last.raised) => NoDuplicateRows(last.out)

\* C4: every relation returned by an operator node has pairwise-distinct
\* attribute names (the relations of the environment have).
C4_SchemaNamesDistinct == ~last.raised => Distinct(last.out.schema)

\* the errors that reject an expression for the schemas of its operands
SchemaErrors ==
  {"KeyError", "ValueError: cannot rename missing",
   "ValueError: rename target already exists",
   "ValueError: union-compatibility failed",
   "ValueError: difference requires identical schemas",
   "ValueError: intersection requires identical schemas",
   "ValueError: divisor attributes not a subset", "ValueError: empty quotient"}

HasEmptyInput == \E i \in 1..Len(last.args) : last.args[i].rows = <<>>

\* C5: an operator one of whose inputs has zero rows does not fail because
\* of that, and product, natural join and theta-join then return zero rows.
C5_EmptyInputsGiveEmptyJoins ==
  HasEmptyInput =>
    /\ last.raised => last.error \in SchemaErrors
    /\ last.node.op \in {"Product", "Join"} => (~last.raised /\ last.out.rows = <<>>)

\* sigma{theta}(L x R), computed by the selection and product branches
SelectionOfProduct(theta, L, R) ==
  SelectionBranch(Selection(theta, Relation("")), _product(L, R)).out

\* C6: the theta-join of A and B has the schema and the row set of
\* sigma{theta}(A x B), also for alias-qualified conditions; scenario 5
\* returns the 6 enroll rows, each paired with its student.
C6_ThetaJoinIsSelectionOfProduct ==
  /\ (last.node.op = "Join" /\ last.node.cond # <<>> /\ ~last.raised) =>
        LET sel == SelectionOfProduct(last.node.cond[1], last.args[1], last.args[2])
        IN last.out.schema = sel.schema /\ RowSet(last.out) = RowSet(sel)
  /\ (Done /\ root = <<Scenario5>>) =>
        /\ status = "returned"
        /\ Len(result.rows) = 6
        /\ \A i \in 1..Len(result.rows) : result.rows[i].cells[1] = result.rows[i].cells[3]

\* C7: each row that survives A - B carries the provenance of an A row equal
\* to it, never that of an A row the difference removed.
C7_DifferenceKeepsSurvivorProvenance ==
  (last.node.op = "Difference" /\ ~last.raised) =>
     \A k \in 1..Len(last.out.rows) :
        \E i \in 1..Len(last.args[1].rows) :
           /\ last.args[1].rows[i].cells = last.out.rows[k].cells
           /\ last.args[1].rows[i].prov = last.out.rows[k].prov

EnrollByReq == Division(Relation("enroll"), Relation("req"))

\* C8 (as claimed): on the example environment pi{sid}(enroll) / req
\* succeeds with schema [sid] and rows {1, 3}.
C8_Scenario3Succeeds ==
  (Done /\ root = <<Scenario3>>) =>
     /\ status = "returned"
     /\ result.schema = <<"sid">>
     /\ RowSet(result) = {<<1>>, <<3>>}

\* C8 (amended): on the example environment pi{sid}(enroll) / req is
\* rejected because the divisor attribute cid is not an attribute of the
\* dividend [sid], after the three records of its operands; enroll / req
\* succeeds with schema [sid] and rows {1, 3}.
C8_Scenario3Rejected ==
  /\ (Done /\ root = <<Scenario3>>) =>
        /\ status = "raised"
        /\ last.error = "ValueError: divisor attributes not a subset"
        /\ Len(steps) = Len(steps0) + 3
  /\ (Done /\ root = <<EnrollByReq>>) =>
        /\ status = "returned"
        /\ result.schema = <<"sid">>
        /\ RowSet(result) = {<<1>>, <<3>>}

C8_Witness ==
  /\ status = "returned"
  /\ root = <<EnrollByReq>>
  /\ Len(result.rows) = 2

\* pi{attrs}(df) as a set of tuples
ProjectSet(df, attrs) == {Key(df.schema, df.rows[i], attrs) : i \in 1..Len(df.rows)}

\* C9: for schema(B) a subset of schema(A) and Q = schema(A) - schema(B) not
\* empty, A / B is exactly the set of q in pi{Q}(A) such that (q, r) is in A
\* for every r in pi{schema(B)}(B), each once, over schema Q.
C9_DivisionIsLargestQuotient ==
  (/\ last.node.op = "Division"
   /\ Range(last.args[2].schema) \subseteq Range(last.args[1].schema)
   /\ ~(Range(last.args[1].schema) \subseteq Range(last.args[2].schema))) =>
     LET A == last.args[1]
         B == last.args[2]
         Q == SubSeqAt(A.schema, {i \in 1..Len(A.schema) : A.schema[i] \notin Range(B.schema)})
     IN /\ ~last.raised
        /\ last.out.schema = Q
        /\ NoDuplicateRows(last.out)
        /\ RowSet(last.out) =
             {q \in ProjectSet(A, Q) :
                \A r \in ProjectSet(B, B.schema) : (q \o r) \in ProjectSet(A, Q \o B.schema)}

C9_Witness ==
  /\ last.node.op = "Division"
  /\ ~last.raised
  /\ Cardinality(RowSet(last.args[2])) >= 2
  /\ last.out.rows # <<>>
  /\ Cardinality(RowSet(last.out)) < Cardinality(ProjectSet(last.args[1], last.out.schema))

\* the provenance lists of the rows of rows whose key under attrs is key,
\* concatenated in row order
MergedProv(schema, rows, attrs, key) ==
  LET same == SubSeqAt(rows, {i \in 1..Len(rows) : Key(schema, rows[i], attrs) = key})
  IN Flatten([i \in 1..Len(same) |-> same[i].prov], Len(same))

\* C10: a row that projection or union keeps for several equal rows carries
\* the concatenation of the provenance lists of all of them, in first-seen
\* order (for a union the rows of A before the rows of B).
C10_DuplicatesMergeProvenance ==
  /\ (last.node.op = "Projection" /\ ~last.raised) =>
        \A k \in 1..Len(last.out.rows) :
           last.out.rows[k].prov =
             MergedProv(last.args[1].schema, last.args[1].rows, last.node.attrs,
                        last.out.rows[k].cells)
  /\ (last.node.op = "Union" /\ ~last.raised) =>
        \A k \in 1..Len(last.out.rows) :
           last.out.rows[k].prov =
             MergedProv(last.out.schema, last.args[1].rows \o last.args[2].rows,
                        last.out.schema, last.out.rows[k].cells)

\* the identifiers a condition reads
RECURSIVE Identifiers(_)
Identifiers(c) ==
  CASE c.k = "cmp" -> {t.name : t \in {u \in {c.l, c.r} : u.k = "id"}}
    [] c.k = "not" -> Identifiers(c.e)
    [] c.k \in {"and", "or"} -> Identifiers(c.l) \cup Identifiers(c.r)
    [] OTHER -> {}

\* the attributes and alias-qualified attributes of the rows of a frame
AttributeNames(df) ==
  Range(df.schema) \cup
  {p[1] \o "." \o p[2] :
     p \in {q \in (DOMAIN df.aliases) \X Range(df.schema) : q[2] \in Range(df.aliases[q[1]])}}

\* the frame whose rows the condition of the last sigma / theta-join read
ConditionInput ==
  IF last.node.op = "Selection" THEN last.args[1] ELSE _product(last.args[1], last.args[2])

ConditionEvaluated ==
  /\ last.node.op \in {"Selection", "Join"}
  /\ last.node.cond # <<>>
  /\ last.args # <<>>
  /\ ConditionInput.rows # <<>>

BadCondition ==
  \/ last.node.cond[1] = Unparsable
  \/ ~(Identifiers(last.node.cond[1]) \subseteq AttributeNames(ConditionInput))

\* C11: a sigma or theta-join whose condition cannot be parsed, or reads an
\* identifier that is no attribute and no alias-qualified attribute of the
\* row, fails with an error; it never returns a relation.
C11_BadConditionRaises ==
  (ConditionEvaluated /\ BadCondition) => last.raised

\* C12: when evaluate_expression fails during evaluation, the error handed
\* to the caller comes with the trace records of every node completed
\* before the failing node (the records of the steps list of the call).
C12_ErrorCarriesPartialTrace ==
  (delivered.kind = "EvaluationError" /\ steps # <<>>) =>
     (delivered.has_trace /\ delivered.trace = steps)

\* the literals a condition compares with
RECURSIVE Literals(_)
Literals(c) ==
  CASE c.k = "cmp" -> {t.v : t \in {u \in {c.l, c.r} : u.k = "val"}}
    [] c.k = "not" -> Literals(c.e)
    [] c.k \in {"and", "or"} -> Literals(c.l) \cup Literals(c.r)
    [] OTHER -> {}

\* the truth value the specification gives a comparison: false when an
\* operand is absent or the operands are of different domains
ComparisonTruth(o, a, b) ==
  IF a \in {NaN, None} \/ b \in {NaN, None} \/ IsStr(a) # IsStr(b) THEN FALSE
  ELSE CASE o = "="  -> a = b
         [] o = "!=" -> a # b
         [] o = "<"  -> a < b
         [] o = "<=" -> a <= b
         [] o = ">"  -> a > b
         [] o = ">=" -> a >= b

\* ... and the connectives applied to these truth values
RECURSIVE Truth(_, _)
Truth(c, e) ==
  CASE c.k = "const" -> c.v
    [] c.k = "cmp" ->
         ComparisonTruth(c.op, IF c.l.k = "id" THEN EnvGet(e, c.l.name) ELSE c.l.v,
                               IF c.r.k = "id" THEN EnvGet(e, c.r.name) ELSE c.r.v)
    [] c.k = "not" -> ~Truth(c.e, e)
    [] c.k = "and" -> Truth(c.l, e) /\ Truth(c.r, e)
    [] c.k = "or" -> Truth(c.l, e) \/ Truth(c.r, e)

\* the condition holds a construct outside the predicate grammar
RECURSIVE OutsideGrammar(_)
OutsideGrammar(c) ==
  CASE c.k = "cmp" -> c.l.k = "add" \/ c.r.k = "add"
    [] c.k = "not" -> OutsideGrammar(c.e)
    [] c.k \in {"and", "or"} -> OutsideGrammar(c.l) \/ OutsideGrammar(c.r)
    [] OTHER -> FALSE

\* a selection whose condition compiles, reads attributes of its input only
\* and holds no literal the rewriting would change
PlainSelection ==
  /\ last.node.op = "Selection"
  /\ ~last.raised
  /\ last.node.cond[1] # Unparsable
  /\ ~OutsideGrammar(last.node.cond[1])
  /\ Identifiers(last.node.cond[1]) \subseteq AttributeNames(last.args[1])
  /\ Literals(last.node.cond[1]) \cap DOMAIN Texts = {}

\* C13: a comparison across domains or with an absent operand is the value
\* false and the connectives around it apply as usual, so a selection keeps
\* exactly the rows on which the condition is true under that reading
\* (NOT (x < 'a') with numeric x keeps the row).
C13_CrossDomainComparisonIsFalse ==
  PlainSelection =>
    last.out.rows =
      SubSeqAt(last.args[1].rows,
               {i \in 1..Len(last.args[1].rows) :
                  Truth(last.node.cond[1],
                        _row_env(last.args[1].schema, last.args[1].rows[i],
                                 last.args[1].aliases))})

\* a selection name = 'text' on a string attribute of its input
LiteralSelection ==
  /\ last.node.op = "Selection"
  /\ ~last.raised
  /\ last.node.cond[1].k = "cmp"
  /\ last.node.cond[1].op = "="
  /\ last.node.cond[1].l.k = "id"
  /\ last.node.cond[1].l.name \in Range(last.args[1].schema)
  /\ last.node.cond[1].r.k = "val"
  /\ IsStr(last.node.cond[1].r.v)

\* C14: the text inside a quoted literal is compared verbatim: "=" and the
\* words AND, OR, NOT inside the quotes are not rewritten, so
\* sigma{name = 'a=b'}(R) keeps exactly the rows whose name is a=b and
\* sigma{name = 'AND'}(R) exactly the rows whose name is AND.
C14_LiteralComparedVerbatim ==
  LiteralSelection =>
    last.out.rows =
      SubSeqAt(last.args[1].rows,
               {i \in 1..Len(last.args[1].rows) :
                  last.args[1].rows[i].cells[Index(last.args[1].schema,
                                                   last.node.cond[1].l.name)]
                    = last.node.cond[1].r.v})

\* the schema after the first n pairs were applied one after the other
RECURSIVE SchemaAfter(_, _, _)
SchemaAfter(schema, pairs, n) ==
  IF n = 0 THEN schema
  ELSE LET before == SchemaAfter(schema, pairs, n - 1)
       IN [k \in 1..Len(before) |->
             IF before[k] = pairs[n][1] THEN pairs[n][2] ELSE before[k]]

\* applying the pairs in order gives an attribute a name that the schema
\* holds at that point
CollidesInOrder(schema, pairs) ==
  \E n \in 1..Len(pairs) :
     LET before == SchemaAfter(schema, pairs, n - 1)
     IN /\ pairs[n][1] \in Range(before)
        /\ pairs[n][2] \in Range(before)
        /\ pairs[n][2] # pairs[n][1]

\* C15: rho{pairs}(R) raises and returns no relation whenever applying the
\* pairs in order gives an attribute a new name that exists in the schema at
\* that point, two pairs with the same new name included.
C15_RenameCollisionRaises ==
  (last.node.op = "Rename" /\ CollidesInOrder(last.args[1].schema, last.node.pairs))
    => last.raised

\* the innermost call is about to run the branch of a set operator or a
\* division whose operand schemas the specification rejects
SchemaRejected ==
  /\ status = "running"
  /\ stack # <<>>
  /\ stack[1].phase = Len(stack[1].node.kids)
  /\ \/ /\ stack[1].node.op \in {"Union", "Difference", "Intersection"}
        /\ vals[2].schema # vals[1].schema
     \/ /\ stack[1].node.op = "Division"
        /\ \/ ~(Range(vals[1].schema) \subseteq Range(vals[2].schema))
           \/ Range(vals[2].schema) \ Range(vals[1].schema) = {}

\* C16: union, difference and intersection raise when the operand schemas
\* differ as ordered sequences, division raises when the divisor schema is
\* no subset of the dividend schema or the quotient schema is empty; no
\* relation is returned and no trace record is appended for the node.
C16_SchemaMismatchRaises ==
  [][SchemaRejected => (status' = "raised" /\ steps' = steps /\ result' = result)]_vars

C16_Witness ==
  /\ status = "raised"
  /\ last.node.op \in {"Union", "Difference", "Intersection", "Division"}
  /\ last.error \in {"ValueError: union-compatibility failed",
                     "ValueError: difference requires identical schemas",
                     "ValueError: intersection requires identical schemas",
                     "ValueError: divisor attributes not a subset",
                     "ValueError: empty quotient"}
  /\ Len(steps) = Len(steps0) + 2

\* eval returned sigma{p}(A u B) for two base relations A and B
SelectionOfUnion ==
  /\ status = "returned"
  /\ root[1].op = "Selection"
  /\ root[1].kids[1].op = "Union"
  /\ \A k \in 1..2 : root[1].kids[1].kids[k].op = "Relation"

\* the frame of sigma{p}(A) u sigma{p}(B) for the same p, A and B
UnionOfSelections ==
  LET A == RelationBranch(root[1].kids[1].kids[1], env).out
      B == RelationBranch(root[1].kids[1].kids[2], env).out
  IN UnionBranch(root[1].kids[1],
                 SelectionBranch(root[1], A).out, SelectionBranch(root[1], B).out).out

\* C17 as stated: for relations A, B of identical schemas and every
\* condition p, with unqualified or alias-qualified attribute names,
\* sigma{p}(A u B) has the row set of sigma{p}(A) u sigma{p}(B).
C17_SelectionDistributesOverUnion ==
  SelectionOfUnion => RowSet(result) = RowSet(UnionOfSelections)

\* C17 amended: the same for every condition p that reads unqualified
\* attribute names only.
C17_UnqualifiedSelectionDistributes ==
  (SelectionOfUnion /\ Identifiers(root[1].cond[1]) \subseteq Range(result.schema))
    => RowSet(result) = RowSet(UnionOfSelections)

C17_Witness ==
  /\ SelectionOfUnion
  /\ Identifiers(root[1].cond[1]) \subseteq Range(result.schema)
  /\ \E c \in RowSet(result) : c \notin RowSet(env[root[1].kids[1].kids[1].name])
  /\ \E c \in RowSet(result) : c \notin RowSet(env[root[1].kids[1].kids[2].name])
  /\ \E c \in RowSet(last.args[1]) : c \notin RowSet(result)

\* the rows of a frame as attribute -> value maps
RowMaps(df) ==
  {[c \in Range(df.schema) |-> df.rows[i].cells[Index(df.schema, c)]] :
     i \in 1..Len(df.rows)}

NaturalJoinReturned == last.node.op = "Join" /\ last.node.cond = <<>> /\ ~last.raised

\* C18: with identical schemas A u B and B u A have the same row set, and
\* so have A n B and B n A; A |x| B and B |x| A hold the same rows when rows
\* are compared as attribute -> value maps.
C18_UnionIntersectionJoinCommute ==
  /\ (last.node.op = "Union" /\ ~last.raised) =>
        RowSet(last.out) = RowSet(UnionBranch(last.node, last.args[2], last.args[1]).out)
  /\ (last.node.op = "Intersection" /\ ~last.raised) =>
        RowSet(last.out) =
          RowSet(IntersectionBranch(last.node, last.args[2], last.args[1]).out)
  /\ NaturalJoinReturned =>
        RowMaps(last.out) = RowMaps(_natural_join(last.args[2], last.args[1]))

C18_Witness ==
  /\ NaturalJoinReturned
  /\ Common(last.args[1], last.args[2]) # <<>>
  /\ Len(last.out.rows) >= 2
  /\ Len(last.out.rows) > Len(last.args[1].rows)
  /\ _natural_join(last.args[2], last.args[1]).schema # last.out.schema

\* C19: every trace record appended by eval, for every operator kind,
\* carries an output_schema equal to the schema of the node's result and a
\* delta.rows_after equal to the number of rows of that result.
C19_RecordCarriesSchemaAndRowsAfter ==
  (last # NoLast /\ ~last.raised) =>
     /\ steps[Len(steps)].output_schema = _schema(last.out)
     /\ <<"rows_after", Len(last.out.rows)>> \in steps[Len(steps)].delta

\* C20: in every relation an operator node returns, each alias of the alias
\* map is bound to attribute names of that relation's schema only.
C20_AliasesWithinSchema ==
  (last # NoLast /\ ~last.raised) =>
     \A a \in DOMAIN last.out.aliases :
        Range(last.out.aliases[a]) \subseteq Range(last.out.schema)

C20_Witness ==
  /\ last # NoLast
  /\ ~last.raised
  /\ last.args # <<>>
  /\ \E a \in DOMAIN last.out.aliases :
        /\ last.out.aliases[a] # <<>>
        /\ a \in DOMAIN last.args[1].aliases
        /\ ~(Range(last.args[1].aliases[a]) \subseteq Range(last.out.schema))

\* C21: a condition of a sigma or theta-join that holds a construct outside
\* the predicate grammar (arithmetic, a call, subscripting, a membership
\* test) is rejected with an error and never executed as host-language code.
C21_OutsideGrammarRejected ==
  (ConditionEvaluated /\ OutsideGrammar(last.node.cond[1])) => last.raised

\* eval returned sigma{x = v}(A x B) or A |x|{x = v} B for base relations A, B
ComparisonOverPair ==
  /\ status = "returned"
  /\ \/ root[1].op = "Selection" /\ root[1].kids[1].op = "Product"
     \/ root[1].op = "Join" /\ root[1].cond # <<>>
  /\ root[1].cond[1].k = "cmp"
  /\ root[1].cond[1].op = "="
  /\ root[1].cond[1].l.k = "id"
  /\ root[1].cond[1].r.k = "val"
  /\ LET pair == IF root[1].op = "Join" THEN root[1] ELSE root[1].kids[1]
     IN \A k \in 1..2 : pair.kids[k].op = "Relation"

PairLeft == (IF root[1].op = "Join" THEN root[1] ELSE root[1].kids[1]).kids[1].name
PairRight == (IF root[1].op = "Join" THEN root[1] ELSE root[1].kids[1]).kids[2].name
SharedNames == Range(env[PairLeft].schema) \cap Range(env[PairRight].schema)

\* the combined rows the operator started from
PairRows == _product(RelationBranch(Relation(PairLeft), env).out,
                     RelationBranch(Relation(PairRight), env).out).rows

\* the rows whose cell at position pos is the compared literal
RowsWithCell(pos) ==
  SubSeqAt(PairRows, {i \in 1..Len(PairRows) : PairRows[i].cells[pos] = root[1].cond[1].r.v})

\* C24: in A x B or a theta-join of A and B that share an attribute name n,
\* the output keeps A's column as n and B's column as n_r; in a condition
\* the unqualified n is A's cell and b.n (b the alias of B) is B's cell of
\* the same combined row.
C24_SharedNameResolution ==
  ComparisonOverPair =>
    \A n \in SharedNames :
       /\ result.schema[Index(env[PairLeft].schema, n)] = n
       /\ result.schema[Len(env[PairLeft].schema) + Index(env[PairRight].schema, n)]
             = n \o "_r"
       /\ root[1].cond[1].l.name = n =>
             result.rows = RowsWithCell(Index(env[PairLeft].schema, n))
       /\ root[1].cond[1].l.name = PairRight \o "." \o n =>
             result.rows = RowsWithCell(Len(env[PairLeft].schema)
                                          + Index(env[PairRight].schema, n))

\* C25: in rho{pairs}(R) without an explicit alias, a pair whose old name is
\* absent from R's schema is an alias assignment only when it is the first
\* pair; a pair with an absent old name at a later position raises.
C25_LaterAbsentPairRaises ==
  (/\ last.node.op = "Rename"
   /\ last.node.relation = ""
   /\ \E i \in 2..Len(last.node.pairs) :
         last.node.pairs[i][1] \notin Range(last.args[1].schema))
    => last.raised

\* the pairs of an A row and a B row that agree on every common attribute
AgreeingPairs(A, B) ==
  {p \in (1..Len(A.rows)) \X (1..Len(B.rows)) :
     \A c \in Range(A.schema) \cap Range(B.schema) :
        A.rows[p[1]].cells[Index(A.schema, c)] = B.rows[p[2]].cells[Index(B.schema, c)]}

\* the attributes of B that A does not have, in B's order
OnlyInRight(A, B) ==
  SubSeqAt(B.schema, {k \in 1..Len(B.schema) : B.schema[k] \notin Range(A.schema)})

\* the joined row of one agreeing pair
JoinedRow(A, B, p) ==
  [cells |-> A.rows[p[1]].cells \o Key(B.schema, B.rows[p[2]], OnlyInRight(A, B)),
   prov |-> A.rows[p[1]].prov \o B.rows[p[2]].prov]

\* C26: for a natural join with common attributes the output schema is
\* schema(A) followed by B's other attributes, the rows are exactly the
\* combinations of an A row and a B row agreeing on every common attribute,
\* each with A's provenance followed by B's; without common attributes the
\* result is A x B.
C26_NaturalJoinIsEquiJoin ==
  NaturalJoinReturned =>
    LET A == last.args[1]
        B == last.args[2]
        pairs == AgreeingPairs(A, B)
    IN IF Range(A.schema) \cap Range(B.schema) = {}
       THEN /\ last.out.schema = _product(A, B).schema
            /\ last.out.rows = _product(A, B).rows
       ELSE /\ last.out.schema = A.schema \o OnlyInRight(A, B)
            /\ Len(last.out.rows) = Cardinality(pairs)
            /\ \A p \in pairs :
                  Cardinality({k \in 1..Len(last.out.rows) :
                                 last.out.rows[k] = JoinedRow(A, B, p)})
                    = Cardinality({q \in pairs : JoinedRow(A, B, q) = JoinedRow(A, B, p)})

C26_Witness ==
  /\ NaturalJoinReturned
  /\ Cardinality(Range(last.args[1].schema) \cap Range(last.args[2].schema)) = 2
  /\ Len(last.args[1].rows) = 2
  /\ Len(last.out.rows) = 1

LinkClass(link) ==
  CASE link.tok = "JOIN" -> "Join"
    [] link.tok = "PRODUCT" -> "Product"
    [] link.tok = "UNION" -> "Union"
    [] link.tok = "DIFF" -> "Difference"
    [] link.tok = "INTERSECT" -> "Intersection"
    [] link.tok = "DIV" -> "Division"

\* ((u0 op1 u1) op2 u2)... over the first n links of a chain
RECURSIVE LeftFold(_, _)
LeftFold(chain, n) ==
  IF n = 0 THEN Unit(1)
  ELSE IF chain[n].tok = "JOIN"
       THEN AST_Join(LeftFold(chain, n - 1), Unit(n + 1),
                     IF Strip(chain[n].cond) = <<>> THEN NoTheta
                     ELSE Strip(chain[n].cond))
       ELSE AST_Binary(LinkClass(chain[n]), LeftFold(chain, n - 1), Unit(n + 1))

\* C28: the reducer folds every chain of binary operators (any mix of join,
\* product, union, difference, intersection, division) to the left, with one
\* precedence level; a brace condition after a join is that Join's theta
\* (stripped), a join without one has theta None.
C28_LeftAssociativeFold ==
  \A chain \in Chains :
    (parsed.done /\ items = ItemsOf(chain))
      => (~parsed.raised /\ parsed.node = LeftFold(chain, Len(chain)))

\* the entries of a dict other than one key are the same in two dicts
SameButFor(before, after, k) ==
  /\ (DOMAIN before) \ {k} = (DOMAIN after) \ {k}
  /\ \A n \in (DOMAIN after) \ {k} : after[n] = before[n]

\* C23: _clear_preview_cache(name) removes name's entry from the preview cache
\* and from the preview-error map and leaves every other database's entries as
\* they were; _clear_preview_cache() removes both maps from the session state.
C23_ClearPreviewCache ==
  (call.op = "_clear_preview_cache") =>
    IF call.name = NoDatabase
    THEN ~session_state.has_cache /\ ~session_state.has_errors
    ELSE /\ call.name \notin DOMAIN session_state.cache
         /\ call.name \notin DOMAIN session_state.errors
         /\ SameButFor(call.before.cache, session_state.cache, call.name)
         /\ SameButFor(call.before.errors, session_state.errors, call.name)

C23_Witness ==
  /\ call.op = "_clear_preview_cache"
  /\ call.name = "A"
  /\ "A" \in DOMAIN call.before.errors
  /\ "B" \in DOMAIN call.before.cache
  /\ "B" \in DOMAIN session_state.cache

\* C22: once get_database_schema has returned a schema for a key (user,
\* normalised name, max(sample_rows, 0)), every call for that key that starts
\* later, with no clear of that database in between, returns the same schema
\* and touches no storage object.
C22_CachedSchemaIsServedAgain ==
  (returned.outcome # "" /\ returned.owed # NoSchema) =>
    /\ returned.outcome = "schema"
    /\ returned.schema = returned.owed
    /\ ~returned.touched

\* C29: once delete_database(name, user_id=u) has completed, every
\* get_database_schema(name, user_id=u) that starts later fails with
\* FileNotFoundError, whatever calls ran concurrently with the delete.
C29_DeletedDatabaseIsGone ==
  returned.mustFail => returned.outcome = "FileNotFoundError"

\* the names list_databases shows to a user
Listed(urows, sto, user_id) ==
  {list_databases(urows, sto, user_id)[i].name :
     i \in 1..Len(list_databases(urows, sto, user_id))}

\* thread t takes a step of a delete_database call on a shared default dataset
DeleteOfDefaultSteps(t) ==
  /\ threads[t].op = "delete"
  /\ threads[t].name \in DefaultNames
  /\ threads'[t] # threads[t]

\* C30: delete_database on a shared default dataset by user u only hides it
\* for u: once it has returned, list_databases(u) omits the dataset and
\* _resolve_location(name, u) raises FileNotFoundError; no step of it changes
\* what list_databases(v) and _resolve_location(name, v) give any other user
\* v, and none deletes a storage object of the default dataset.
C30_DeleteOfDefaultOnlyHides ==
  [][\A t \in Threads :
       DeleteOfDefaultSteps(t) =>
         LET u == threads[t].user
             name == threads[t].name IN
         /\ \A v \in Users \ {u} :
              /\ list_databases(user_rows', storage', v)
                   = list_databases(user_rows, storage, v)
              /\ _resolve_location(user_rows', name, v)
                   = _resolve_location(user_rows, name, v)
         /\ storage'[DefaultPrefix(name)] = storage[DefaultPrefix(name)]
         /\ (threads'[t].op = "idle") =>
              /\ name \notin Listed(user_rows', storage', u)
              /\ _resolve_location(user_rows', name, u).raised]_vars

\* u has hidden the default dataset D, which v still sees
C30_Witness ==
  /\ <<"u", "D">> \in deleted
  /\ user_rows["u"]["D"] = "default_hidden"
  /\ "D" \notin Listed(user_rows, storage, "u")
  /\ "D" \in Listed(user_rows, storage, "v")
  /\ ~_resolve_location(user_rows, "D", "v").raised
====
